---------------------------- MODULE Spec2Model ----------------------------
(***************************************************************************)
(* Metrics aggregation engine of the stock screener:                       *)
(*   app/processors/metrics_precomputer.py     (long ledger + manifest)    *)
(*   app/processors/summary_report_generator.py (lookups, records, report) *)
(*                                                                         *)
(* Conventions.                                                            *)
(*  - A Python str is a sequence of one-character strings; a CJK character *)
(*    is written as one romanised token ("nian" for U+5E74), so Len, SubSeq *)
(*    and concatenation behave as len(), slicing and + do.                 *)
(*  - A float is an integer count of hundredths (5.0 is 500); np.nan is    *)
(*    the empty tuple and a present value v is <<v>>.  round(x, 2) is      *)
(*    exact rational round-half-even.                                      *)
(*  - A cell read by pandas without dtype=str is <<"int", digits>> or      *)
(*    <<"str", chars>>: an int64 never equals a str.                       *)
(***************************************************************************)
EXTENDS Integers, Sequences, FiniteSets, TLC

\* Every record below names its fields in the order TLC keeps them (that of a
\* name's first appearance in the module), so that a record is in normal form
\* from the moment it is built.

VARIABLES
    income_files,     \* merged_csv_dir: "<year>-income_statement.csv" per year
    balance_files,    \* merged_csv_dir: "<year>-balance_sheet.csv" per year
    dividend_files,   \* merged_csv_dir: "<year>-dividend.csv" per year
    price_file,       \* SUMMARY_PRICE_FILE (latest_stock_prices.csv)
    ledger_file,      \* HISTORICAL_METRICS_FILE (historical_metrics.csv)
    manifest,         \* METRICS_UPDATE_LOG_FILE (update_log.json)
    last_precompute,  \* outcome of the last precompute() call
    lookups,          \* the four lookups of the last generate() call
    request,          \* the years argument of the last generate() call
    metrics,          \* list of row dicts returned by MetricCalculator.calculate
    report,           \* DataFrame returned by ReportAssembler.assemble
    last_generate,    \* outcome of the last generate() call
    call,             \* last direct call of a MetricCalculator helper
    writer,           \* to_csv of a precompute() in progress on the ledger file
    reader            \* what the last load_metrics() of a concurrent reader returned

vars == <<income_files, balance_files, dividend_files, price_file, ledger_file,
          manifest, last_precompute, lookups, request, metrics, report,
          last_generate, call, writer, reader>>

-----------------------------------------------------------------------------
(* Strings *)

\* The characters that occur, in code-point order (Python compares str by code point).
Alphabet == <<" ", "0", "1", "2", "3", "4", "5", "6", "7", "8", "9", "A", "B", "E", "Q", "Y">>

Digits == <<"0", "1", "2", "3", "4", "5", "6", "7", "8", "9">>

ord(c) == CHOOSE i \in 1..Len(Alphabet) : Alphabet[i] = c

IsDigit(c) == \E i \in 1..Len(Digits) : Digits[i] = c

DigitVal(c) == (CHOOSE i \in 1..Len(Digits) : Digits[i] = c) - 1

\* str < str
RECURSIVE StrLess(_, _)
StrLess(s, t) ==
    IF t = <<>> THEN FALSE
    ELSE IF s = <<>> THEN TRUE
    ELSE IF Head(s) = Head(t) THEN StrLess(Tail(s), Tail(t))
    ELSE ord(Head(s)) < ord(Head(t))

\* s[:n]
Prefix(s, n) == SubSeq(s, 1, IF n < Len(s) THEN n ELSE Len(s))

\* s[n:]
Suffix(s, n) == SubSeq(s, n + 1, Len(s))

\* s.endswith(t)
EndsWith(s, t) == Len(s) >= Len(t) /\ SubSeq(s, Len(s) - Len(t) + 1, Len(s)) = t

\* s.isdigit()
isdigit(s) == s # <<>> /\ \A i \in 1..Len(s) : IsDigit(s[i])

\* s.strip()
RECURSIVE lstrip(_)
lstrip(s) == IF s # <<>> /\ Head(s) = " " THEN lstrip(Tail(s)) ELSE s

RECURSIVE rstrip(_)
rstrip(s) == IF s # <<>> /\ s[Len(s)] = " " THEN rstrip(SubSeq(s, 1, Len(s) - 1)) ELSE s

strip(s) == rstrip(lstrip(s))

\* int(s) for a string of digits
RECURSIVE DigitsToInt(_)
DigitsToInt(s) ==
    IF s = <<>> THEN 0 ELSE 10 * DigitsToInt(SubSeq(s, 1, Len(s) - 1)) + DigitVal(s[Len(s)])

\* str(n) for n >= 0
RECURSIVE IntToStr(_)
IntToStr(n) ==
    IF n < 10 THEN <<Digits[n + 1]>> ELSE IntToStr(n \div 10) \o <<Digits[(n % 10) + 1]>>

-----------------------------------------------------------------------------
(* Numbers *)

nan == <<>>

Some(v) == <<v>>

isna(x) == x = nan

Val(x) == x[1]

Abs(n) == IF n < 0 THEN -n ELSE n

\* The integer nearest to num/den, ties to the even one (Python 3 round()).
RoundHalfEven(num, den) ==
    LET n == IF den < 0 THEN -num ELSE num
        d == Abs(den)
        q == n \div d           \* floor, since d > 0
        r == n - q * d
    IN  IF 2 * r < d THEN q
        ELSE IF 2 * r > d THEN q + 1
        ELSE IF q % 2 = 0 THEN q ELSE q + 1

\* round(a / b * 100, 2) for a = an/ad and b = bn/bd (the result again in hundredths).
PercentOf(an, ad, bn, bd) == RoundHalfEven(an * bd * 10000, ad * bn)

-----------------------------------------------------------------------------
(* metrics_precomputer.py *)

Q1 == <<"Q", "1">>
Q2 == <<"Q", "2">>
Q3 == <<"Q", "3">>
Q4 == <<"Q", "4">>
Y1 == <<"Y", "1">>

\* A text cell holding a number, e.g. "5.0".
Num(v) == <<"num", v>>

\* A text cell that float() rejects, e.g. "-" or "1,234".
Garbage == <<"text">>

\* An empty cell (read as NaN).
Empty == <<"empty">>

\* A file that does not exist / an existing file with the rows given.
NoFile == [exists |-> FALSE, rows |-> <<>>]

File(rows) == [exists |-> TRUE, rows |-> rows]

\* pd.DataFrame(): no columns, no rows / a frame with the projected columns.
NoFrame == [rows |-> <<>>, cols |-> FALSE]

Frame(rows) == [rows |-> rows, cols |-> TRUE]

_safe_float(val) == IF val[1] = "num" THEN Some(val[2]) ELSE nan

RECURSIVE SetToSeqDesc(_)
SetToSeqDesc(S) ==
    IF S = {} THEN <<>>
    ELSE LET m == CHOOSE x \in S : \A y \in S : y = x \/ StrLess(y, x)
         IN  <<m>> \o SetToSeqDesc(S \ {m})

\* sorted(list(years), reverse=True): the years are compared as str.
_get_all_years(files) == SetToSeqDesc({y \in DOMAIN files : files[y].exists})

RECURSIVE MapRows(_, _, _)
MapRows(rows, Proj(_), i) ==
    IF i > Len(rows) THEN <<>> ELSE <<Proj(rows[i])>> \o MapRows(rows, Proj, i + 1)

\* The loop shared by the three loaders: the files of the years given, in that
\* order, each projected; an absent or empty file is skipped.
RECURSIVE ConcatYears(_, _, _, _)
ConcatYears(files, years, Proj(_), i) ==
    IF i > Len(years) THEN <<>>
    ELSE LET f == files[years[i]]
         IN  (IF f.exists /\ f.rows # <<>> THEN MapRows(f.rows, Proj, 1) ELSE <<>>)
             \o ConcatYears(files, years, Proj, i + 1)

AnyLoaded(files, years) ==
    \E i \in 1..Len(years) : files[years[i]].exists /\ files[years[i]].rows # <<>>

IncomeRow(r) ==
    [code |-> r.code, year |-> r.year, quarter |-> r.quarter,
     eps |-> _safe_float(r.eps_raw), profit |-> _safe_float(r.profit_raw)]

_load_income_statement(files, years) ==
    IF AnyLoaded(files, years) THEN Frame(ConcatYears(files, years, IncomeRow, 1)) ELSE NoFrame

BalanceRow(r) ==
    [code |-> r.code, year |-> r.year, quarter |-> r.quarter,
     equity |-> _safe_float(r.equity_raw)]

_load_balance_sheet(files, years) ==
    IF AnyLoaded(files, years) THEN Frame(ConcatYears(files, years, BalanceRow, 1)) ELSE NoFrame

\* A zero dividend kept as the number it is.
ZeroToNan_Kept(x) == x

\* df.loc[df["cash_dividend"] == 0, "cash_dividend"] = np.nan
ZeroToNan(x) == IF ~isna(x) /\ Val(x) = 0 THEN nan ELSE x

DividendRow(r) ==
    [code |-> r.code, year |-> r.year, quarter |-> r.quarter,
     cash_dividend |-> ZeroToNan(_safe_float(r.cash_dividend_raw))]

_load_dividend(files, years) ==
    IF AnyLoaded(files, years) THEN Frame(ConcatYears(files, years, DividendRow, 1)) ELSE NoFrame

\* No listing is ever used.
_get_valid_stock_codes_None(pf) == {}

\* set(df[code_col].dropna().unique()), or set() when the listing cannot be used.
_get_valid_stock_codes(pf) ==
    IF ~pf.exists \/ pf.rows = <<>> \/ ~pf.code_col THEN {}
    ELSE {pf.rows[i].code : i \in 1..Len(pf.rows)}

KeyOf(r) == <<r.code, r.year, r.quarter>>

\* Lexicographic order of the join keys (an outer merge sorts its keys).
KeyLess(a, b) ==
    \/ StrLess(a[1], b[1])
    \/ a[1] = b[1] /\ StrLess(a[2], b[2])
    \/ a[1] = b[1] /\ a[2] = b[2] /\ StrLess(a[3], b[3])

RECURSIVE KeysAsc(_)
KeysAsc(S) ==
    IF S = {} THEN <<>>
    ELSE LET m == CHOOSE x \in S : \A y \in S : y = x \/ KeyLess(x, y)
         IN  <<m>> \o KeysAsc(S \ {m})

RECURSIVE SelectKey(_, _)
SelectKey(rows, k) ==
    IF rows = <<>> THEN <<>>
    ELSE (IF KeyOf(Head(rows)) = k THEN <<Head(rows)>> ELSE <<>>) \o SelectKey(Tail(rows), k)

RECURSIVE Cross(_, _, _)
Cross(ls, rs, i) ==
    IF i > Len(ls) * Len(rs) THEN <<>>
    ELSE <<ls[((i - 1) \div Len(rs)) + 1] @@ rs[((i - 1) % Len(rs)) + 1]>> \o Cross(ls, rs, i + 1)

Fill(rows, blank) == [i \in 1..Len(rows) |-> rows[i] @@ blank]

\* The rows of both sides stacked instead of joined.
MergeKey_Stacked(ls, rs, lblank, rblank) == Fill(ls, rblank) \o Fill(rs, lblank)

\* The rows of one key in left.merge(right, on=[code, year, quarter], how="outer"):
\* every pairing of a left row with a right row; a row without a partner keeps
\* NaN in the other side's columns.
MergeKey(ls, rs, lblank, rblank) ==
    IF ls # <<>> /\ rs # <<>> THEN Cross(ls, rs, 1)
    ELSE IF ls # <<>> THEN Fill(ls, rblank)
    ELSE Fill(rs, lblank)

RECURSIVE MergeKeys(_, _, _, _, _)
MergeKeys(keys, L, R, lblank, rblank) ==
    IF keys = <<>> THEN <<>>
    ELSE MergeKey(SelectKey(L, Head(keys)), SelectKey(R, Head(keys)), lblank, rblank)
         \o MergeKeys(Tail(keys), L, R, lblank, rblank)

merge(L, R, lblank, rblank) ==
    MergeKeys(KeysAsc({KeyOf(L[i]) : i \in 1..Len(L)} \cup {KeyOf(R[i]) : i \in 1..Len(R)}),
              L, R, lblank, rblank)

\* result[result["code"].isin(valid_codes)]
RECURSIVE isin(_, _)
isin(rows, codes) ==
    IF rows = <<>> THEN <<>>
    ELSE (IF Head(rows).code \in codes THEN <<Head(rows)>> ELSE <<>>) \o isin(Tail(rows), codes)

\* The year left as text.
year_int_AsText(r) == IF Len(r.year) = 2 THEN 1000 + DigitsToInt(r.year) ELSE DigitsToInt(r.year)

\* result["year"].astype(int)
year_int(r) == DigitsToInt(r.year)

\* result["quarter"].map({"Q1": 1, "Q2": 2, "Q3": 3, "Q4": 4})
quarter_order(r) ==
    IF r.quarter = Q1 THEN Some(1)
    ELSE IF r.quarter = Q2 THEN Some(2)
    ELSE IF r.quarter = Q3 THEN Some(3)
    ELSE IF r.quarter = Q4 THEN Some(4)
    ELSE nan

\* by=["code", "year_int", "quarter_order"], ascending=[True, False, False],
\* NaN last: a sorts strictly before b.
SortsBefore(a, b) ==
    \/ StrLess(a.code, b.code)
    \/ /\ a.code = b.code
       /\ \/ year_int(a) > year_int(b)
          \/ /\ year_int(a) = year_int(b)
             /\ ~isna(quarter_order(a))
             /\ (isna(quarter_order(b)) \/ Val(quarter_order(a)) > Val(quarter_order(b)))

RECURSIVE InsertSorted(_, _)
InsertSorted(sorted, x) ==
    IF sorted = <<>> THEN <<x>>
    ELSE IF SortsBefore(x, Head(sorted)) THEN <<x>> \o sorted
    ELSE <<Head(sorted)>> \o InsertSorted(Tail(sorted), x)

\* result.sort_values(...): stable.
RECURSIVE sort_values(_)
sort_values(rows) ==
    IF rows = <<>> THEN <<>>
    ELSE InsertSorted(sort_values(SubSeq(rows, 1, Len(rows) - 1)), rows[Len(rows)])

MaxOf(S) == CHOOSE x \in S : \A y \in S : y <= x

MinOf(S) == CHOOSE x \in S : \A y \in S : x <= y

\* The seven columns kept by result[[...]] (the merged frame has no others
\* besides the two sort helpers).
LedgerRow(r) ==
    [code |-> r.code, year |-> r.year, quarter |-> r.quarter, eps |-> r.eps,
     profit |-> r.profit, equity |-> r.equity, cash_dividend |-> r.cash_dividend]

\* The manifest with every row counted as a security of its own.
log_data_RowsAsStocks(result) ==
    LET ys == {year_int(result[i]) : i \in 1..Len(result)}
    IN  [total_records |-> Len(result),
         unique_stocks |-> Len(result),
         year_min |-> IF ys = {} THEN nan ELSE Some(MinOf(ys)),
         year_max |-> IF ys = {} THEN nan ELSE Some(MaxOf(ys))]

\* json.dump(log_data): total_records, unique_stocks, year_range.
log_data(result) ==
    LET ys == {year_int(result[i]) : i \in 1..Len(result)}
    IN  [total_records |-> Len(result),
         unique_stocks |-> Cardinality({result[i].code : i \in 1..Len(result)}),
         year_min |-> IF ys = {} THEN nan ELSE Some(MinOf(ys)),
         year_max |-> IF ys = {} THEN nan ELSE Some(MaxOf(ys))]

NoManifest == [total_records |-> 0, unique_stocks |-> 0, year_min |-> nan, year_max |-> nan]

\* "未找到任何 income_statement CSV 檔案", the message of the ValueError raised
\* when no income-statement file is found.
NO_INCOME_MESSAGE ==
    <<"wei", "zhao", "dao", "ren", "he", " ", "income_statement", " ", "CSV", " ", "dang", "an">>

\* MetricsPrecomputer.precompute: the outcome, the ledger and the manifest it writes.
precompute(income, balance, dividend, prices) ==
    LET years == _get_all_years(income)
        eps_df == _load_income_statement(income, years)
        equity_df == _load_balance_sheet(balance, years)
        dividend_df == _load_dividend(dividend, years)
        merged == merge(merge(eps_df.rows, equity_df.rows,
                              [eps |-> nan, profit |-> nan], [equity |-> nan]),
                        dividend_df.rows,
                        [eps |-> nan, profit |-> nan, equity |-> nan],
                        [cash_dividend |-> nan])
        valid_codes == _get_valid_stock_codes(prices)
        filtered == IF valid_codes # {} THEN isin(merged, valid_codes) ELSE merged
        sorted == sort_values(filtered)
        result == [i \in 1..Len(sorted) |-> LedgerRow(sorted[i])]
    IN  IF years = <<>>
        THEN [result |-> <<>>, status |-> "ValueError", log |-> NoManifest]
        ELSE IF ~eps_df.cols \/ ~equity_df.cols \/ ~dividend_df.cols
        THEN [result |-> <<>>, status |-> "KeyError", log |-> NoManifest]
        ELSE [result |-> result, status |-> "ok", log |-> log_data(result)]

\* A run that adds its rows to those the ledger file already holds.
Precompute_Append ==
    LET out == precompute(income_files, balance_files, dividend_files, price_file)
    IN  /\ last_precompute' = out.status
        /\ ledger_file' = IF out.status = "ok" THEN File(ledger_file.rows \o out.result)
                          ELSE ledger_file
        /\ manifest' = IF out.status = "ok" THEN out.log ELSE manifest
        /\ UNCHANGED <<income_files, balance_files, dividend_files, price_file,
                       lookups, request, metrics, report, last_generate, call,
                       writer, reader>>

\* One run of precompute(): on success the ledger and then the manifest are
\* overwritten; on an exception nothing is written and the error is re-raised.
Precompute ==
    LET out == precompute(income_files, balance_files, dividend_files, price_file)
    IN  /\ last_precompute' = out.status
        /\ ledger_file' = IF out.status = "ok" THEN File(out.result) ELSE ledger_file
        /\ manifest' = IF out.status = "ok" THEN out.log ELSE manifest
        /\ UNCHANGED <<income_files, balance_files, dividend_files, price_file,
                       lookups, request, metrics, report, last_generate, call,
                       writer, reader>>

-----------------------------------------------------------------------------
(* summary_report_generator.py: HistoricalMetricsLoader and DataLoader *)

\* A Python value that is an int or a str.
PyInt(digits) == <<"int", digits>>

PyStr(chars) == <<"str", chars>>

\* str(x)
str(x) == x[2]

\* What the C parser accepts as an integer: digits with blanks around them.
ParsesAsInt(s) == isdigit(strip(s))

\* A column of text cells read by pd.read_csv without dtype: int64 when every
\* cell parses as an integer (blanks and leading zeros are lost), str otherwise.
InferColumn(column, cell) ==
    IF \A i \in 1..Len(column) : ParsesAsInt(column[i])
    THEN PyInt(IntToStr(DigitsToInt(strip(cell))))
    ELSE PyStr(cell)

\* HistoricalMetricsLoader.load_metrics: the rows of the ledger file as pandas
\* types them.  A float column round-trips exactly through to_csv / read_csv.
load_metrics(rows) ==
    LET codes == [i \in 1..Len(rows) |-> rows[i].code]
        years == [i \in 1..Len(rows) |-> rows[i].year]
    IN  [i \in 1..Len(rows) |->
            [code |-> InferColumn(codes, rows[i].code),
             year |-> InferColumn(years, rows[i].year),
             quarter |-> rows[i].quarter,
             eps |-> rows[i].eps, profit |-> rows[i].profit,
             equity |-> rows[i].equity, cash_dividend |-> rows[i].cash_dividend]]

\* dict.get(key, np.nan)
Get(d, k) == IF k \in DOMAIN d THEN Some(d[k]) ELSE nan

\* d[k] = v
Set(d, k, v) == [x \in (DOMAIN d) \cup {k} |-> IF x = k THEN v ELSE d[x]]

EmptyDict == <<>>

EmptyLookups ==
    [eps_lookup |-> EmptyDict, profit_lookup |-> EmptyDict,
     equity_lookup |-> EmptyDict, dividend_lookup |-> EmptyDict]

\* The loop body with the dividends of a (code, year) added up.
AddRowToLookups_Sum(lk, row) ==
    LET code == PyStr(strip(str(row.code)))
        year == strip(str(row.year))
        quarter == strip(row.quarter)
        before == IF <<code, year>> \in DOMAIN lk.dividend_lookup
                  THEN lk.dividend_lookup[<<code, year>>] ELSE 0
    IN  IF str(code) = <<>> \/ year = <<>> \/ quarter = <<>> THEN lk
        ELSE [eps_lookup |->
                 IF ~isna(row.eps) THEN Set(lk.eps_lookup, <<code, year, quarter>>, Val(row.eps))
                 ELSE lk.eps_lookup,
              profit_lookup |->
                 IF ~isna(row.profit) /\ quarter = Q4
                 THEN Set(lk.profit_lookup, <<code, year>>, Val(row.profit))
                 ELSE lk.profit_lookup,
              equity_lookup |->
                 IF ~isna(row.equity)
                 THEN Set(lk.equity_lookup, <<code, year, quarter>>, Val(row.equity))
                 ELSE lk.equity_lookup,
              dividend_lookup |->
                 IF quarter = Y1 /\ ~isna(row.cash_dividend)
                 THEN Set(lk.dividend_lookup, <<code, year>>, before + Val(row.cash_dividend))
                 ELSE lk.dividend_lookup]

\* The loop body with the profit taken from the rows of every period.
AddRowToLookups_AnyPeriod(lk, row) ==
    LET code == PyStr(strip(str(row.code)))
        year == strip(str(row.year))
        quarter == strip(row.quarter)
        filed == IF <<code, year>> \in DOMAIN lk.dividend_lookup
                 THEN lk.dividend_lookup[<<code, year>>] ELSE 0
    IN  [eps_lookup |->
             IF ~isna(row.eps) THEN Set(lk.eps_lookup, <<code, year, quarter>>, Val(row.eps))
             ELSE lk.eps_lookup,
         profit_lookup |->
             IF ~isna(row.profit) THEN Set(lk.profit_lookup, <<code, year>>, Val(row.profit))
             ELSE lk.profit_lookup,
         equity_lookup |->
             IF ~isna(row.equity)
             THEN Set(lk.equity_lookup, <<code, year, quarter>>, Val(row.equity))
             ELSE lk.equity_lookup,
         dividend_lookup |->
             IF quarter = Y1 /\ ~isna(row.cash_dividend) /\ Val(row.cash_dividend) > filed
             THEN Set(lk.dividend_lookup, <<code, year>>, Val(row.cash_dividend))
             ELSE lk.dividend_lookup]

\* The body of the loop of build_lookups_from_metrics for one row.
AddRowToLookups(lk, row) ==
    LET code == PyStr(strip(str(row.code)))
        year == strip(str(row.year))
        quarter == strip(row.quarter)
        eps_lookup ==
            IF ~isna(row.eps) THEN Set(lk.eps_lookup, <<code, year, quarter>>, Val(row.eps))
            ELSE lk.eps_lookup
        profit_lookup ==
            IF ~isna(row.profit) /\ quarter = Q4
            THEN Set(lk.profit_lookup, <<code, year>>, Val(row.profit))
            ELSE lk.profit_lookup
        equity_lookup ==
            IF ~isna(row.equity)
            THEN Set(lk.equity_lookup, <<code, year, quarter>>, Val(row.equity))
            ELSE lk.equity_lookup
        dividend_lookup ==
            IF quarter = Y1 /\ ~isna(row.cash_dividend)
               /\ (<<code, year>> \notin DOMAIN lk.dividend_lookup
                   \/ Val(row.cash_dividend) > lk.dividend_lookup[<<code, year>>])
            THEN Set(lk.dividend_lookup, <<code, year>>, Val(row.cash_dividend))
            ELSE lk.dividend_lookup
    IN  IF str(code) = <<>> \/ year = <<>> \/ quarter = <<>> THEN lk
        ELSE [eps_lookup |-> eps_lookup, profit_lookup |-> profit_lookup,
              equity_lookup |-> equity_lookup, dividend_lookup |-> dividend_lookup]

RECURSIVE build_lookups_from_metrics(_)
build_lookups_from_metrics(metrics_df) ==
    IF metrics_df = <<>> THEN EmptyLookups
    ELSE AddRowToLookups(build_lookups_from_metrics(SubSeq(metrics_df, 1, Len(metrics_df) - 1)),
                         metrics_df[Len(metrics_df)])

\* x in lst
InList(x, lst) == \E i \in 1..Len(lst) : lst[i] = x

\* years plus the year before the earliest one (for the opening equity).
extended_years(years) ==
    IF years = <<>> THEN years
    ELSE LET prev_year == IntToStr(MinOf({DigitsToInt(years[i]) : i \in 1..Len(years)}) - 1)
         IN  IF InList(prev_year, years) THEN years ELSE Append(years, prev_year)

RECURSIVE SelectRows(_, _, _)
SelectRows(rows, years, quarters) ==
    IF rows = <<>> THEN <<>>
    ELSE (IF InList(str(Head(rows).year), years) /\ Head(rows).quarter \in quarters
          THEN <<Head(rows)>> ELSE <<>>)
         \o SelectRows(Tail(rows), years, quarters)

\* _build_eps_df_from_metrics and _build_bs_df_from_metrics select the same rows.
_build_eps_df_from_metrics(metrics_df, years) == SelectRows(metrics_df, years, {Q1, Q2, Q3, Q4})

_build_bs_df_from_metrics(metrics_df, years) == SelectRows(metrics_df, years, {Q1, Q2, Q3, Q4})

\* Order of the group keys of df.groupby(["code", "year"]): both columns have
\* one type; int64 is ordered by value, str by code point.
CellLess(a, b) ==
    IF a[1] = "int" THEN DigitsToInt(a[2]) < DigitsToInt(b[2]) ELSE StrLess(a[2], b[2])

GroupLess(a, b) == CellLess(a[1], b[1]) \/ (a[1] = b[1] /\ CellLess(a[2], b[2]))

RECURSIVE GroupsAsc(_)
GroupsAsc(S) ==
    IF S = {} THEN <<>>
    ELSE LET m == CHOOSE x \in S : \A y \in S : y = x \/ GroupLess(x, y)
         IN  <<m>> \o GroupsAsc(S \ {m})

\* .agg({"cash_dividend": "max"}): the largest non-NaN value of the group.
GroupMax(rows, g) ==
    LET vs == {Val(rows[i].cash_dividend) : i \in
                 {j \in 1..Len(rows) : <<rows[j].code, rows[j].year>> = g
                                        /\ ~isna(rows[j].cash_dividend)}}
    IN  IF vs = {} THEN nan ELSE Some(MaxOf(vs))

_build_div_df_from_metrics(metrics_df, years) ==
    LET df == SelectRows(metrics_df, years, {Y1})
        groups == GroupsAsc({<<df[i].code, df[i].year>> : i \in 1..Len(df)})
    IN  [i \in 1..Len(groups) |->
            [code |-> groups[i][1], year |-> groups[i][2], quarter |-> Y1,
             cash_dividend |-> GroupMax(df, groups[i])]]

\* _get_latest_price_map: {code: (price, date)}; a later row of a code wins.
RECURSIVE _get_latest_price_map(_)
_get_latest_price_map(rows) ==
    IF rows = <<>> THEN EmptyDict
    ELSE Set(_get_latest_price_map(SubSeq(rows, 1, Len(rows) - 1)),
             PyStr(rows[Len(rows)].code),
             [price |-> rows[Len(rows)].price, date |-> rows[Len(rows)].date])

\* _get_stock_names_from_price_file: {code: name}
RECURSIVE _get_stock_names_from_price_file(_)
_get_stock_names_from_price_file(rows) ==
    IF rows = <<>> THEN EmptyDict
    ELSE Set(_get_stock_names_from_price_file(SubSeq(rows, 1, Len(rows) - 1)),
             PyStr(rows[Len(rows)].code), rows[Len(rows)].name)

-----------------------------------------------------------------------------
(* summary_report_generator.py: MetricCalculator *)

\* safe_float(val): float(val), or NaN when float() raises.
safe_float(val) == IF val # nan /\ val[1] = "num" THEN Some(val[2]) ELSE nan

\* lst[a:b]
Slice(lst, a, b) == SubSeq(lst, a + 1, IF b < Len(lst) THEN b ELSE Len(lst))

\* reversed(lst)
reversed(lst) == [i \in 1..Len(lst) |-> lst[Len(lst) + 1 - i]]

\* {"Q1": 1, "Q2": 2, "Q3": 3, "Q4": 4}.get(q, 0)
QuarterRank(q) ==
    IF q = Q1 THEN 1 ELSE IF q = Q2 THEN 2 ELSE IF q = Q3 THEN 3 ELSE IF q = Q4 THEN 4 ELSE 0

\* One step of the loop of calc_single_quarter_eps, for index i >= 1 (0-based).
SingleQuarter(eps_lookup, code, seasons_sorted, i) ==
    LET curr_y == Prefix(seasons_sorted[i + 1], 3)
        curr_q == Suffix(seasons_sorted[i + 1], 3)
        prev_y == Prefix(seasons_sorted[i], 3)
        prev_q == Suffix(seasons_sorted[i], 3)
        curr_eps == Get(eps_lookup, <<code, curr_y, curr_q>>)
        prev_eps == Get(eps_lookup, <<code, prev_y, prev_q>>)
    IN  IF curr_q = Q1 THEN curr_eps
        ELSE IF curr_y = prev_y /\ ~isna(curr_eps) /\ ~isna(prev_eps)
        THEN Some(Val(curr_eps) - Val(prev_eps))
        ELSE nan

\* The loop started at the first entry, which has no entry before it.
calc_single_quarter_eps_FromFirst(eps_lookup, code, seasons_sorted) ==
    [i \in 1..Len(seasons_sorted) |->
        IF i = 1
        THEN (IF Suffix(seasons_sorted[1], 3) = Q1
              THEN Get(eps_lookup, <<code, Prefix(seasons_sorted[1], 3), Q1>>) ELSE nan)
        ELSE SingleQuarter(eps_lookup, code, seasons_sorted, i - 1)]

\* The step taken from the preceding entry whatever its fiscal year.
calc_single_quarter_eps_AcrossYears(eps_lookup, code, seasons_sorted) ==
    [i \in 1..(Len(seasons_sorted) - 1) |->
        LET curr_eps == Get(eps_lookup, <<code, Prefix(seasons_sorted[i + 1], 3),
                                          Suffix(seasons_sorted[i + 1], 3)>>)
            prev_eps == Get(eps_lookup, <<code, Prefix(seasons_sorted[i], 3),
                                          Suffix(seasons_sorted[i], 3)>>)
        IN  IF Suffix(seasons_sorted[i + 1], 3) = Q1 THEN curr_eps
            ELSE IF ~isna(curr_eps) /\ ~isna(prev_eps)
            THEN Some(Val(curr_eps) - Val(prev_eps))
            ELSE nan]

\* for i in range(1, len(seasons_sorted)): one value per entry after the first.
calc_single_quarter_eps(eps_lookup, code, seasons_sorted) ==
    [i \in 1..(Len(seasons_sorted) - 1) |-> SingleQuarter(eps_lookup, code, seasons_sorted, i)]

\* The rate with zero standing in for a result that cannot be computed.
DiffRate_ZeroForAbsent(now, prev) ==
    IF ~isna(now) /\ ~isna(prev) /\ Val(prev) # 0
    THEN Some(PercentOf(Val(now) - Val(prev), 1, Abs(Val(prev)), 1))
    ELSE Some(0)

\* round((now - prev) / abs(prev) * 100, 2), or NaN
DiffRate(now, prev) ==
    IF ~isna(now) /\ ~isna(prev) /\ Val(prev) # 0
    THEN Some(PercentOf(Val(now) - Val(prev), 1, Abs(Val(prev)), 1))
    ELSE nan

\* str(int(y) - 1), or '' when int(y) raises
PrevYearOrEmpty(y) == IF isdigit(y) THEN IntToStr(DigitsToInt(y) - 1) ELSE <<>>

\* The rate taken against the earlier value itself instead of its magnitude.
calc_eps_diff_rate_SignedBase(eps_lookup, code, y, q) ==
    LET now == Get(eps_lookup, <<code, y, q>>)
        prev == Get(eps_lookup, <<code, PrevYearOrEmpty(y), q>>)
    IN  IF ~isna(now) /\ ~isna(prev) /\ Val(prev) # 0
        THEN Some(PercentOf(Val(now) - Val(prev), 1, Val(prev), 1))
        ELSE nan

calc_eps_diff_rate(eps_lookup, code, y, q) ==
    DiffRate(Get(eps_lookup, <<code, y, q>>), Get(eps_lookup, <<code, PrevYearOrEmpty(y), q>>))

\* The average equity falling back on the third quarter when a year end is missing.
calc_avg_equity_AnyQuarter(equity_lookup, code, year) ==
    LET prev_year == IntToStr(DigitsToInt(year) - 1)
        begin_equity == Get(equity_lookup, <<code, prev_year, Q4>>)
        end_equity == IF <<code, year, Q4>> \in DOMAIN equity_lookup
                      THEN Get(equity_lookup, <<code, year, Q4>>)
                      ELSE Get(equity_lookup, <<code, year, Q3>>)
    IN  IF ~isna(begin_equity) /\ ~isna(end_equity)
        THEN <<Val(begin_equity) + Val(end_equity), 2>>
        ELSE IF ~isna(end_equity) THEN <<Val(end_equity), 1>>
        ELSE IF ~isna(begin_equity) THEN <<Val(begin_equity), 1>>
        ELSE nan

\* The mean of the opening (previous year's Q4) and closing (this year's Q4)
\* equity as the fraction <<numerator, denominator>>, or NaN.
calc_avg_equity(equity_lookup, code, year) ==
    LET prev_year == IntToStr(DigitsToInt(year) - 1)
        begin_equity == Get(equity_lookup, <<code, prev_year, Q4>>)
        end_equity == Get(equity_lookup, <<code, year, Q4>>)
    IN  IF ~isna(begin_equity) /\ ~isna(end_equity)
        THEN <<Val(begin_equity) + Val(end_equity), 2>>
        ELSE IF ~isna(end_equity) THEN <<Val(end_equity), 1>>
        ELSE IF ~isna(begin_equity) THEN <<Val(begin_equity), 1>>
        ELSE nan

RECURSIVE SumSeq(_)
SumSeq(lst) == IF lst = <<>> THEN 0 ELSE Head(lst) + SumSeq(Tail(lst))

\* [v for v in lst if not pd.isna(v)], unwrapped
RECURSIVE DropNa(_)
DropNa(lst) ==
    IF lst = <<>> THEN <<>>
    ELSE (IF isna(Head(lst)) THEN <<>> ELSE <<Val(Head(lst))>>) \o DropNa(Tail(lst))

\* avg_last_n: round(np.mean(vals), 2) over the non-NaN values of lst[:n].
avg_last_n(lst, n) ==
    LET vals == DropNa(Slice(lst, 0, n))
    IN  IF vals # <<>> THEN Some(RoundHalfEven(SumSeq(vals), Len(vals))) ELSE nan

RECURSIVE SumSet(_)
SumSet(S) == IF S = {} THEN 0 ELSE LET x == CHOOSE z \in S : TRUE IN x + SumSet(S \ {x})

\* The fallback of get_cash_div_sum on div_df: the rows of the code and year,
\* the valid ones, de-duplicated on (code, year, quarter, value), summed.
DivDfSum(div_df, code, year) ==
    LET vs == {Val(div_df[i].cash_dividend) : i \in
                 {j \in 1..Len(div_df) : /\ div_df[j].code = code
                                          /\ div_df[j].year = PyStr(year)
                                          /\ ~isna(div_df[j].cash_dividend)}}
    IN  IF vs = {} THEN nan ELSE Some(SumSet(vs))

\* The dividend of the year taken from any security that has one.
get_cash_div_sum_AnyCode(dividend_lookup, div_df, code, year) ==
    LET vs == {dividend_lookup[k] : k \in {j \in DOMAIN dividend_lookup : j[2] = year}}
    IN  IF vs = {} THEN nan ELSE Some(MaxOf(vs))

get_cash_div_sum(dividend_lookup, div_df, code, year) ==
    LET use_precomputed == dividend_lookup # EmptyDict
    IN  IF use_precomputed THEN Get(dividend_lookup, <<code, year>>)
        ELSE DivDfSum(div_df, code, year)

\* The values of one year with 0 in place of an absent ROE.
YearValues_ZeroRoe(lk, div_df, price, code, y) ==
    LET curr == Get(lk.eps_lookup, <<code, y, Q4>>)
        cash_div == get_cash_div_sum(lk.dividend_lookup, div_df, code, y)
        profit == Get(lk.profit_lookup, <<code, y>>)
        avg_equity == calc_avg_equity(lk.equity_lookup, code, y)
    IN  [eps |-> curr,
         roe |-> IF ~isna(profit) /\ ~isna(avg_equity) /\ avg_equity[1] # 0
                 THEN Some(PercentOf(Val(profit), 1, avg_equity[1], avg_equity[2]))
                 ELSE Some(0),
         div |-> cash_div,
         yield |-> IF ~isna(cash_div) /\ ~isna(price) /\ Val(price) # 0
                   THEN Some(PercentOf(Val(cash_div), 1, Val(price), 1)) ELSE nan,
         payout |-> IF ~isna(cash_div) /\ ~isna(curr) /\ Val(curr) # 0
                    THEN Some(PercentOf(Val(cash_div), 1, Val(curr), 1)) ELSE nan]

\* The values of one year with the yield taken as price / dividend.
YearValues_PricePerDividend(lk, div_df, price, code, y) ==
    LET curr == Get(lk.eps_lookup, <<code, y, Q4>>)
        cash_div == get_cash_div_sum(lk.dividend_lookup, div_df, code, y)
        profit == Get(lk.profit_lookup, <<code, y>>)
        avg_equity == calc_avg_equity(lk.equity_lookup, code, y)
    IN  [eps |-> curr,
         roe |-> IF ~isna(profit) /\ ~isna(avg_equity) /\ avg_equity[1] # 0
                 THEN Some(PercentOf(Val(profit), 1, avg_equity[1], avg_equity[2]))
                 ELSE nan,
         div |-> cash_div,
         yield |-> IF ~isna(cash_div) /\ ~isna(price) /\ Val(price) # 0
                   THEN Some(PercentOf(Val(price), 1, Val(cash_div), 1)) ELSE nan,
         payout |-> IF ~isna(cash_div) /\ ~isna(curr) /\ Val(curr) # 0
                    THEN Some(PercentOf(Val(cash_div), 1, Val(curr), 1)) ELSE nan]

\* The values of one year y of the loop "for y in years".
YearValues(lk, div_df, price, code, y) ==
    LET curr == Get(lk.eps_lookup, <<code, y, Q4>>)
        cash_div == get_cash_div_sum(lk.dividend_lookup, div_df, code, y)
        div_yield ==
            IF ~isna(cash_div) /\ ~isna(price) /\ Val(price) # 0
            THEN Some(PercentOf(Val(cash_div), 1, Val(price), 1)) ELSE nan
        profit == Get(lk.profit_lookup, <<code, y>>)
        avg_equity == calc_avg_equity(lk.equity_lookup, code, y)
        roe ==
            IF ~isna(profit) /\ ~isna(avg_equity) /\ avg_equity[1] # 0
            THEN Some(PercentOf(Val(profit), 1, avg_equity[1], avg_equity[2])) ELSE nan
        payout_ratio ==
            IF ~isna(cash_div) /\ ~isna(curr) /\ Val(curr) # 0
            THEN Some(PercentOf(Val(cash_div), 1, Val(curr), 1)) ELSE nan
    IN  [eps |-> curr, roe |-> roe, div |-> cash_div, yield |-> div_yield,
         payout |-> payout_ratio]

\* Column names.  CJK characters are single tokens.
COL_CODE == <<"gu", "piao", "dai", "hao">>
COL_NAME == <<"gu", "piao", "ming", "cheng">>
COL_PRICE == <<"shou", "pan", "jia">>
COL_DATE == <<"shou", "pan", "ri">>
EPS_YEAR == <<"E", "P", "S", "_", "nian", "du">>
CASH_DIV == <<"xian", "jin", "gu", "li">>
YIELD == <<"zhi", "li", "lv">>
ROE == <<"R", "O", "E">>
PAYOUT == <<"pei", "xi", "lv">>
DIVIDEND == <<"gu", "xi">>
EPS_4Q == <<"jinn", "si", "ji", "E", "P", "S", "zong", "he">>
EPS_4Q_DIFF ==
    <<"jinn", "si", "ji", "_", "v", "s", "_", "qian", "nian", "du", "_", "E", "P", "S", "cha", "lv">>

\* f"近{n}年平均{what}"
AvgCol(n, what) == <<"jinn", n, "nian", "ping", "jun">> \o what

\* f"{season}_EPS"
SeasonEpsCol(season) == season \o <<"_", "E", "P", "S">>

\* f"{y}{q}_vs_{y_prev}{q}_EPS差率"
SeasonDiffCol(y, q, y_prev) ==
    y \o q \o <<"_", "v", "s", "_">> \o y_prev \o q \o <<"_", "E", "P", "S", "cha", "lv">>

\* pd.unique / dict keys: the distinct elements in order of first appearance.
unique(lst) ==
    LET indexed == [i \in 1..Len(lst) |-> <<i, lst[i]>>]
        IsFirst(p) == \A j \in 1..(p[1] - 1) : lst[j] # p[2]
        firsts == SelectSeq(indexed, IsFirst)
    IN  [i \in 1..Len(firsts) |-> firsts[i][2]]

\* A dict keeps its keys in insertion order; assigning an existing key keeps
\* the key's position.
NewRow == [keys |-> <<>>, vals |-> <<>>]

Put(row, k, v) ==
    IF k \in DOMAIN row.vals
    THEN [keys |-> row.keys, vals |-> [row.vals EXCEPT ![k] = v]]
    ELSE [keys |-> Append(row.keys, k), vals |-> (k :> v) @@ row.vals]

\* The dict after the assignments kvs, made in order, to an empty dict.
PutAll(row, kvs) ==
    LET keys == unique([i \in 1..Len(kvs) |-> kvs[i][1]])
        LastOf(k) == CHOOSE i \in 1..Len(kvs) :
                        kvs[i][1] = k /\ \A j \in (i + 1)..Len(kvs) : kvs[j][1] # k
    IN  [keys |-> row.keys \o keys,
         vals |-> [k \in {keys[i] : i \in 1..Len(keys)} |-> kvs[LastOf(k)][2]] @@ row.vals]

RECURSIVE Flatten(_)
Flatten(lists) == IF lists = <<>> THEN <<>> ELSE Head(lists) \o Flatten(Tail(lists))

\* [f"{y}{q}" for y in years for q in reversed(self.quarters)]
all_seasons(years) ==
    Flatten([i \in 1..Len(years) |-> <<years[i] \o Q4, years[i] \o Q3, years[i] \o Q2, years[i] \o Q1>>])

\* key=lambda s: (int(s[:3]), {...}.get(s[3:], 0))
SeasonBefore(a, b) ==
    \/ DigitsToInt(Prefix(a, 3)) < DigitsToInt(Prefix(b, 3))
    \/ /\ DigitsToInt(Prefix(a, 3)) = DigitsToInt(Prefix(b, 3))
       /\ QuarterRank(Suffix(a, 3)) < QuarterRank(Suffix(b, 3))

RECURSIVE InsertSeason(_, _)
InsertSeason(sorted, x) ==
    IF sorted = <<>> THEN <<x>>
    ELSE IF SeasonBefore(x, Head(sorted)) THEN <<x>> \o sorted
    ELSE <<Head(sorted)>> \o InsertSeason(Tail(sorted), x)

\* sorted(seasons, key=...)
RECURSIVE SortSeasons(_)
SortSeasons(seasons) ==
    IF seasons = <<>> THEN <<>>
    ELSE InsertSeason(SortSeasons(SubSeq(seasons, 1, Len(seasons) - 1)), seasons[Len(seasons)])

\* int(s[:3]) raises ValueError for some season handed to sorted().
SortRaises(years) ==
    \E i \in 1..Len(Slice(all_seasons(years), 1, 6)) :
        ~isdigit(Prefix(Slice(all_seasons(years), 1, 6)[i], 3))

\* The assignments of the years with those of an absent value left out.
YearAssignments_SkipAbsent(per_year, years) ==
    Flatten([i \in 1..Len(years) |->
        (IF isna(per_year[i].eps) THEN <<>> ELSE << <<years[i] \o EPS_YEAR, per_year[i].eps>> >>)
        \o << <<years[i] \o CASH_DIV, per_year[i].div>>,
              <<years[i] \o YIELD, per_year[i].yield>> >>
        \o (IF isna(per_year[i].roe) THEN <<>> ELSE << <<years[i] \o ROE, per_year[i].roe>> >>)])

\* The assignments row[...] = ... of the loop "for y in years", in order.
YearAssignments(per_year, years) ==
    Flatten([i \in 1..Len(years) |->
        <<  <<years[i] \o EPS_YEAR, per_year[i].eps>>,
            <<years[i] \o CASH_DIV, per_year[i].div>>,
            <<years[i] \o YIELD, per_year[i].yield>>,
            <<years[i] \o ROE, per_year[i].roe>>  >>])

\* The averages taken from the first year on.
TrailingAverages_FromFirst(series, what) ==
    <<  <<AvgCol("3", what), avg_last_n(series, 3)>>,
        <<AvgCol("5", what), avg_last_n(series, 5)>>,
        <<AvgCol("8", what), avg_last_n(series, 8)>>  >>

\* avg_last_n(series[1:], n) for n = 3, 5, 8: the current year is left out.
TrailingAverages(series, what) ==
    <<  <<AvgCol("3", what), avg_last_n(Slice(series, 1, Len(series)), 3)>>,
        <<AvgCol("5", what), avg_last_n(Slice(series, 1, Len(series)), 5)>>,
        <<AvgCol("8", what), avg_last_n(Slice(series, 1, Len(series)), 8)>>  >>

\* The loop over reversed(all_seasons[1:9]).
EightSeasonAssignments(eps_lookup, code, years) ==
    LET seasons == reversed(Slice(all_seasons(years), 1, 9))
    IN  [i \in 1..Len(seasons) |->
            <<SeasonEpsCol(seasons[i]),
              Get(eps_lookup, <<code, Prefix(seasons[i], 3), Suffix(seasons[i], 3)>>)>>]

\* The loop over reversed(all_seasons[1:5]).
FourSeasonAssignments(eps_lookup, code, years) ==
    LET seasons == reversed(Slice(all_seasons(years), 1, 5))
    IN  Flatten([i \in 1..Len(seasons) |->
            LET y == Prefix(seasons[i], 3)
                q == Suffix(seasons[i], 3)
                y_prev == PrevYearOrEmpty(y)
            IN  <<  <<SeasonEpsCol(y \o q), Get(eps_lookup, <<code, y, q>>)>>,
                    <<SeasonEpsCol(y_prev \o q), Get(eps_lookup, <<code, y_prev, q>>)>>,
                    <<SeasonDiffCol(y, q, y_prev), calc_eps_diff_rate(eps_lookup, code, y, q)>>  >>])

\* round(np.nansum(eps_4q), 2) if any value is present, else NaN
NanSum(eps_4q) == IF DropNa(eps_4q) # <<>> THEN Some(SumSeq(DropNa(eps_4q))) ELSE nan

\* The row dict calculate builds for one code.
MetricRow(lk, div_df, price_map, stock_names, years, code) ==
    LET quote == Get(price_map, code)
        price == safe_float(IF isna(quote) THEN nan ELSE Val(quote).price)
        close_date == IF isna(quote) THEN "None" ELSE Val(quote).date
        name == IF code \in DOMAIN stock_names THEN stock_names[code] ELSE ""
        per_year == [i \in 1..Len(years) |-> YearValues(lk, div_df, price, code, years[i])]
        div_years == [i \in 1..Len(years) |-> per_year[i].div]
        yield_years == [i \in 1..Len(years) |-> per_year[i].yield]
        roe_years == [i \in 1..Len(years) |-> per_year[i].roe]
        payout_years == [i \in 1..Len(years) |-> per_year[i].payout]
        last_5_seasons_sorted == SortSeasons(Slice(all_seasons(years), 1, 6))
        eps_4q == calc_single_quarter_eps(lk.eps_lookup, code, last_5_seasons_sorted)
        recent_4q_eps == NanSum(eps_4q)
        diff_rate ==
            IF Len(years) > 1 THEN DiffRate(recent_4q_eps, per_year[2].eps) ELSE nan
    IN  PutAll(NewRow,
            <<  <<COL_CODE, code>>, <<COL_NAME, name>>,
                <<COL_PRICE, price>>, <<COL_DATE, close_date>>  >>
            \o YearAssignments(per_year, years)
            \o TrailingAverages(div_years, DIVIDEND)
            \o TrailingAverages(yield_years, YIELD)
            \o TrailingAverages(roe_years, ROE)
            \o TrailingAverages(payout_years, PAYOUT)
            \o EightSeasonAssignments(lk.eps_lookup, code, years)
            \o FourSeasonAssignments(lk.eps_lookup, code, years)
            \o <<  <<EPS_4Q, recent_4q_eps>>, <<EPS_4Q_DIFF, diff_rate>>  >>)

CodesOf(df) == [i \in 1..Len(df) |-> df[i].code]

\* calculate with a record only for the codes found in all three frames.
calculate_Intersection(lk, data, years, stock_names) ==
    LET InAll(code) == InList(code, CodesOf(data.div_df)) /\ InList(code, CodesOf(data.bs_df))
        all_codes == SelectSeq(unique(CodesOf(data.eps_df)), InAll)
    IN  IF all_codes # <<>> /\ SortRaises(years)
        THEN [rows |-> <<>>, status |-> "ValueError"]
        ELSE [rows |-> [i \in 1..Len(all_codes) |->
                          MetricRow(lk, data.div_df, data.price_map, stock_names,
                                    years, all_codes[i])],
              status |-> "ok"]

\* MetricCalculator.calculate: one row dict per code, or the exception raised.
calculate(lk, data, years, stock_names) ==
    LET all_codes == unique(CodesOf(data.eps_df) \o CodesOf(data.div_df) \o CodesOf(data.bs_df))
    IN  IF all_codes # <<>> /\ SortRaises(years)
        THEN [rows |-> <<>>, status |-> "ValueError"]
        ELSE [rows |-> [i \in 1..Len(all_codes) |->
                          MetricRow(lk, data.div_df, data.price_map, stock_names,
                                    years, all_codes[i])],
              status |-> "ok"]

-----------------------------------------------------------------------------
(* summary_report_generator.py: ReportAssembler and SummaryReportGenerator *)

\* "近四季EPS總合vs前一年度EPS差率", the second entry of special_cols
SPECIAL_DIFF ==
    <<"jinn", "si", "ji", "E", "P", "S", "zong", "he", "v", "s", "qian", "yi", "nian", "du",
      "E", "P", "S", "cha", "lv">>

\* [x for x in lst if keep(x)]
Filter(lst, keep(_)) == SelectSeq(lst, keep)

\* list(pd.DataFrame(metrics).columns): the keys in order of first appearance.
FrameColumns(rows) == unique(Flatten([i \in 1..Len(rows) |-> rows[i].keys]))

AllKeys(rows) == UNION {{rows[i].keys[j] : j \in 1..Len(rows[i].keys)} : i \in 1..Len(rows)}

\* The years found in the keys ending with 'EPS_年度', newest first (as str).
ReportYears(rows) ==
    SetToSeqDesc({Prefix(k, 3) : k \in {k2 \in AllKeys(rows) : EndsWith(k2, EPS_YEAR) /\ Len(k2) >= 6}})

\* [f"{y}{col_type}" for col_type in col_types for y in years]
YearCols(years) ==
    Flatten([t \in 1..4 |->
        [i \in 1..Len(years) |-> years[i] \o <<CASH_DIV, YIELD, ROE, EPS_YEAR>>[t]]])

RECURSIVE InsertByCode(_, _)
InsertByCode(sorted, x) ==
    IF sorted = <<>> THEN <<x>>
    ELSE IF CellLess(x.vals[COL_CODE], Head(sorted).vals[COL_CODE]) THEN <<x>> \o sorted
    ELSE <<Head(sorted)>> \o InsertByCode(Tail(sorted), x)

\* The rows left in the order of the records.
SortByCode_AsProduced(rows) == rows

\* df_report.sort_values(by=["股票代號"])
RECURSIVE SortByCode(_)
SortByCode(rows) ==
    IF rows = <<>> THEN <<>>
    ELSE InsertByCode(SortByCode(SubSeq(rows, 1, Len(rows) - 1)), rows[Len(rows)])

\* The order in which assemble lays the columns out.
ColumnOrder(columns, year_cols) ==
    LET priority == <<COL_CODE, COL_NAME, COL_PRICE, COL_DATE>>
        special_cols == <<EPS_4Q, SPECIAL_DIFF>>
        IsOther(c) == ~InList(c, priority \o year_cols \o special_cols)
        Has(c) == InList(c, columns)
    IN  priority \o year_cols \o Filter(columns, IsOther) \o Filter(special_cols, Has)

\* ReportAssembler.assemble: the columns in their final order and the rows
\* sorted by code; a missing year column is filled with NaN.  With no record
\* the frame has no columns and selecting the priority columns raises KeyError.
assemble(rows) ==
    LET cols == FrameColumns(rows)
        year_cols == YearCols(ReportYears(rows))
        IsMissing(c) == ~InList(c, cols)
        missing_cols == Filter(year_cols, IsMissing)
        columns == ColumnOrder(cols \o missing_cols, year_cols)
        Cell(row, c) == IF c \in DOMAIN row.vals THEN row.vals[c] ELSE nan
        sorted == SortByCode(rows)
    IN  IF rows = <<>> THEN [rows |-> <<>>, status |-> "KeyError", columns |-> <<>>]
        ELSE [rows |-> [i \in 1..Len(sorted) |->
                          [c \in {columns[j] : j \in 1..Len(columns)} |-> Cell(sorted[i], c)]],
              status |-> "ok", columns |-> columns]

NoReport == [exists |-> FALSE, rows |-> <<>>, columns |-> <<>>]

\* DataLoader._load_from_precomputed: the frames and lookups, or the exception.
load(ledger, prices, years) ==
    LET metrics_df == load_metrics(ledger.rows)
    IN  IF ~ledger.exists
        THEN [lookups |-> EmptyLookups, status |-> "FileNotFoundError"]
        ELSE IF ~prices.exists \/ ~prices.code_col
        THEN [lookups |-> build_lookups_from_metrics(metrics_df), status |-> "KeyError"]
        ELSE [lookups |-> build_lookups_from_metrics(metrics_df),
              eps_df |-> _build_eps_df_from_metrics(metrics_df, extended_years(years)),
              status |-> "ok",
              div_df |-> _build_div_df_from_metrics(metrics_df, years),
              price_map |-> _get_latest_price_map(prices.rows),
              bs_df |-> _build_bs_df_from_metrics(metrics_df, extended_years(years))]

\* A stage an earlier exception kept from running.
NotRun == [rows |-> <<>>, status |-> "not run", columns |-> <<>>]

\* SummaryReportGenerator.generate after its three stages: how it ended and
\* what it left behind.  An exception of a stage ends the run there.
generate(data, calc, df_report) ==
    IF data.status # "ok"
    THEN [lookups |-> data.lookups, metrics |-> <<>>, report |-> NoReport,
          status |-> data.status]
    ELSE IF calc.status # "ok"
    THEN [lookups |-> data.lookups, metrics |-> <<>>, report |-> NoReport,
          status |-> calc.status]
    ELSE IF df_report.status # "ok"
    THEN [lookups |-> data.lookups, metrics |-> calc.rows, report |-> NoReport,
          status |-> df_report.status]
    ELSE [lookups |-> data.lookups, metrics |-> calc.rows,
          report |-> [exists |-> TRUE, rows |-> df_report.rows,
                      columns |-> df_report.columns],
          status |-> "ok"]

\* One run of generate(years): load, calculate, assemble; the report file is
\* rewritten only when every stage succeeded.
Generate(years) ==
    \E data \in {load(ledger_file, price_file, years)} :
    \E calc \in {IF data.status = "ok"
                 THEN calculate(data.lookups, data, years,
                                _get_stock_names_from_price_file(price_file.rows))
                 ELSE NotRun} :
    \E df_report \in {IF calc.status = "ok" THEN assemble(calc.rows) ELSE NotRun} :
    \E out \in {generate(data, calc, df_report)} :
        /\ request' = years
        /\ last_generate' = out.status
        /\ lookups' = out.lookups
        /\ metrics' = out.metrics
        /\ report' = IF out.status = "ok" THEN out.report ELSE report
        /\ UNCHANGED <<income_files, balance_files, dividend_files, price_file,
                       ledger_file, manifest, last_precompute, call, writer, reader>>

-----------------------------------------------------------------------------
(* The inputs explored *)

\* Largest number of rows of one (code, year) in a dividend extract.
MaxDivRows == 2

\* Largest number of years requested from generate().
MaxYears == 2

CodeA == <<"1", "1", "0", "1">>
CodeB == <<"2", "3", "3", "0">>
CodeC == <<"2", "3", "3", "0", "B">>

Y99 == <<"9", "9">>
Y100 == <<"1", "0", "0">>
Y112 == <<"1", "1", "2">>
Y113 == <<"1", "1", "3">>
Y114 == <<"1", "1", "4">>

Inc(code, year, quarter, eps_raw, profit_raw) ==
    [code |-> code, year |-> year, quarter |-> quarter,
     eps_raw |-> eps_raw, profit_raw |-> profit_raw]

Bal(code, year, quarter, equity_raw) ==
    [code |-> code, year |-> year, quarter |-> quarter, equity_raw |-> equity_raw]

Div(code, year, cash_dividend_raw) ==
    [code |-> code, year |-> year, quarter |-> Y1, cash_dividend_raw |-> cash_dividend_raw]

Quote(code, name, price) == [code |-> code, price |-> price, date |-> "2025-01-02", name |-> name]

Listing(rows) == [exists |-> TRUE, rows |-> rows, code_col |-> TRUE]

NoListing == [exists |-> FALSE, rows |-> <<>>, code_col |-> FALSE]

\* All sequences over S of length at most n.
RECURSIVE SeqsUpTo(_, _)
SeqsUpTo(S, n) ==
    IF n = 0 THEN {<<>>}
    ELSE LET shorter == SeqsUpTo(S, n - 1)
         IN  shorter \cup {Append(q, x) : q \in shorter, x \in S}

\* The years newest first, n of them from top down: what get_recent_roc_years gives.
YearsFrom(top, n) == [i \in 1..n |-> IntToStr(top - i + 1)]

Requests == {YearsFrom(114, n) : n \in 0..MaxYears}

\* A call as recorded: the function, its arguments (those it does not take
\* stay empty) and what it returned.
Called(fn, lookup, code, year, seasons_sorted, series, result) ==
    [code |-> code, year |-> year, result |-> result, seasons_sorted |-> seasons_sorted,
     series |-> series, fn |-> fn, lookup |-> lookup]

NoCall == Called("none", EmptyDict, <<>>, <<>>, <<>>, <<>>, <<>>)

\* No to_csv in progress / the state of one: the rows to write, the manifest
\* to write after them, and the file as it was before it was opened.
NoWriter == [result |-> <<>>, log |-> NoManifest, open |-> FALSE, previous |-> NoFile]

Writing(result, log, previous) ==
    [result |-> result, log |-> log, open |-> TRUE, previous |-> previous]

\* No reader has called load_metrics yet.
NotRead == [rows |-> <<>>, status |-> "none"]

Idle ==
    /\ writer = NoWriter
    /\ reader = NotRead
    /\ ledger_file = NoFile
    /\ manifest = NoManifest
    /\ last_precompute = "none"
    /\ lookups = EmptyLookups
    /\ request = <<>>
    /\ metrics = <<>>
    /\ report = NoReport
    /\ last_generate = "none"
    /\ call = NoCall

\* Extracts of the years 99 and 100 for two securities: rows out of order,
\* unparsable cells, keys only one extract reports, repeated dividend rows.
IncomeChoices(y) ==
    { NoFile,
      File(<<Inc(CodeA, y, Q1, Num(100), Garbage), Inc(CodeA, y, Q4, Num(500), Num(3000)),
             Inc(CodeB, y, Q4, Garbage, Empty)>>),
      File(<<Inc(CodeB, y, Q3, Num(200), Empty), Inc(CodeA, y, Q2, Num(250), Empty)>>) }

BalanceChoices(y) ==
    { NoFile,
      File(<<Bal(CodeA, y, Q4, Num(20000)), Bal(CodeB, y, Q2, Num(10000))>>) }

DividendRows(y) == {Div(CodeA, y, Num(500)), Div(CodeA, y, Num(300)), Div(CodeB, y, Num(0))}

DividendChoices(y) == {NoFile} \cup {File(rows) : rows \in SeqsUpTo(DividendRows(y), MaxDivRows)}

\* A listing without rows (or one that cannot be read: _read_csv_safe
\* then gives an empty frame), and one whose code column has another name.
EmptyListing == [exists |-> TRUE, rows |-> <<>>, code_col |-> TRUE]

UnnamedListing(rows) == [exists |-> TRUE, rows |-> rows, code_col |-> FALSE]

ListingChoices ==
    { NoListing, EmptyListing, UnnamedListing(<<Quote(CodeA, "A", Num(5000))>>),
      Listing(<<Quote(CodeA, "A", Num(5000))>>),
      Listing(<<Quote(CodeB, "B", Num(0)), Quote(CodeA, "A", Num(5000))>>) }

\* Either the dividend extracts vary over every choice while the other two
\* tables are complete, or the income and balance extracts vary, or the year
\* 100 has no income extract while its other extracts may exist, or there is
\* no income extract at all.
InitLedger ==
    /\ \/ /\ income_files =
               (Y99 :> CHOOSE f \in IncomeChoices(Y99) : f.exists /\ Len(f.rows) = 2)
               @@ (Y100 :> CHOOSE f \in IncomeChoices(Y100) : f.exists /\ Len(f.rows) = 3)
          /\ balance_files =
               (Y99 :> CHOOSE f \in BalanceChoices(Y99) : f.exists)
               @@ (Y100 :> CHOOSE f \in BalanceChoices(Y100) : f.exists)
          /\ \E d99 \in {NoFile, File(<<Div(CodeB, Y99, Num(100))>>)},
                d100 \in DividendChoices(Y100) :
                dividend_files = (Y99 :> d99) @@ (Y100 :> d100)
       \/ /\ \E i99 \in IncomeChoices(Y99) \ {NoFile}, i100 \in IncomeChoices(Y100) :
                income_files = (Y99 :> i99) @@ (Y100 :> i100)
          /\ \E b99 \in BalanceChoices(Y99), b100 \in BalanceChoices(Y100) :
                balance_files = (Y99 :> b99) @@ (Y100 :> b100)
          /\ \E d100 \in {NoFile, File(<<Div(CodeA, Y100, Num(300)), Div(CodeA, Y100, Num(500))>>)} :
                dividend_files = (Y99 :> NoFile) @@ (Y100 :> d100)
       \/ /\ \E i99 \in IncomeChoices(Y99) \ {NoFile} :
                income_files = (Y99 :> i99) @@ (Y100 :> NoFile)
          /\ \E b100 \in BalanceChoices(Y100) :
                balance_files = (Y99 :> CHOOSE f \in BalanceChoices(Y99) : f.exists) @@ (Y100 :> b100)
          /\ \E d100 \in {NoFile, File(<<Div(CodeA, Y100, Num(300))>>)} :
                dividend_files = (Y99 :> File(<<Div(CodeB, Y99, Num(100))>>)) @@ (Y100 :> d100)
       \/ /\ income_files = (Y99 :> NoFile) @@ (Y100 :> NoFile)
          /\ \E b100 \in BalanceChoices(Y100) : balance_files = (Y99 :> NoFile) @@ (Y100 :> b100)
          /\ dividend_files = (Y99 :> NoFile) @@ (Y100 :> NoFile)
    /\ price_file \in ListingChoices
    /\ Idle

\* The extracts of the years 113 and 114 behind a report: security x next to
\* security 1101, cumulative EPS for every quarter of 113 and part of 114.
ReportIncome(x, profit_raw) ==
    (Y113 :> File(<<Inc(x, Y113, Q1, Num(100), Empty), Inc(x, Y113, Q2, Num(250), Empty),
                    Inc(x, Y113, Q3, Num(400), Empty), Inc(x, Y113, Q4, Num(500), Num(2000)),
                    Inc(CodeA, Y113, Q4, Num(300), Num(900))>>))
    @@ (Y114 :> File(<<Inc(x, Y114, Q4, Num(640), profit_raw), Inc(x, Y114, Q1, Num(120), Empty),
                       Inc(x, Y114, Q3, Num(480), Empty), Inc(CodeA, Y114, Q4, Num(350), Garbage)>>))

\* Year-end equity of x: a number, NoRow (the extract has no Q4 row of x), or
\* NoExtract (the year has no balance extract at all).
NoRow == <<"none">>

NoExtract == <<"nofile">>

EquityChoices == {NoExtract, NoRow, Num(0), Num(10000), Num(20000), Num(0 - 20000)}

EquityRows(x, y, equity_raw) ==
    IF equity_raw = NoRow THEN <<Bal(x, y, Q3, Num(40000))>>
    ELSE <<Bal(x, y, Q4, equity_raw), Bal(x, y, Q3, Num(40000))>>

ReportBalance(x, e113, e114) ==
    (Y113 :> IF e113 = NoExtract THEN NoFile
             ELSE File(EquityRows(x, Y113, e113) \o <<Bal(CodeA, Y113, Q4, Num(30000))>>))
    @@ (Y114 :> IF e114 = NoExtract THEN NoFile ELSE File(EquityRows(x, Y114, e114)))

ReportDividendRows(x) == {Div(x, Y114, Num(500)), Div(x, Y114, Num(300)), Div(x, Y114, Num(0))}

ReportDividend(x, rows) ==
    (Y113 :> File(<<Div(CodeA, Y113, Num(150)), Div(x, Y113, Num(200))>>))
    @@ (Y114 :> File(rows))

\* Close price cells: missing, unparsable, zero, 70.00.
PriceChoices == {Empty, Garbage, Num(0), Num(7000)}

ReportListing(x, price) == Listing(<<Quote(x, "X", price), Quote(CodeA, "A", Num(5000))>>)

\* Three securities each seen in one table only: x in the income statements
\* (its annual EPS of 113 zero, unparsable or 5.00, its third quarter
\* -2.00 in 113 and 1.00 in 114), 1101 in the dividends and 999 in the
\* balance sheets.
CodeD == <<"9", "9", "9">>

EpsChoices == {Num(0), Garbage, Num(500)}

ScatteredIncome(x, eps_raw) ==
    (Y113 :> File(<<Inc(x, Y113, Q4, eps_raw, Num(2000)), Inc(x, Y113, Q1, Num(0), Empty),
                    Inc(x, Y113, Q3, Num(0 - 200), Empty)>>))
    @@ (Y114 :> File(<<Inc(x, Y114, Q1, Num(120), Empty), Inc(x, Y114, Q4, Num(640), Num(1000)),
                       Inc(x, Y114, Q3, Num(100), Empty)>>))

ScatteredBalance == (Y113 :> File(<<Bal(CodeD, Y113, Q4, Num(30000))>>)) @@ (Y114 :> NoFile)

ScatteredDividend ==
    (Y113 :> NoFile)
    @@ (Y114 :> File(<<Div(CodeA, Y114, Num(150))>>))

ScatteredListing(x) ==
    Listing(<<Quote(x, "X", Num(7000)), Quote(CodeD, "D", Num(2000)), Quote(CodeA, "A", Num(5000))>>)

\* Either the profit and the year-end equities of x vary, or its dividend rows
\* of 114 and its close price vary, or the securities are scattered over the
\* tables; x is all digits or carries a letter.
InitReport ==
    /\ \E x \in {CodeB, CodeC} :
        \/ /\ \E profit_raw \in {Empty, Num(1000)} : income_files = ReportIncome(x, profit_raw)
           /\ \E e113 \in EquityChoices \ {Num(20000)},
                 e114 \in EquityChoices \ {Num(10000), Num(0 - 20000)} :
                 balance_files = ReportBalance(x, e113, e114)
           /\ dividend_files = ReportDividend(x, <<Div(x, Y114, Num(500))>>)
           /\ price_file = ReportListing(x, Num(7000))
        \/ /\ income_files = ReportIncome(x, Num(1000))
           /\ balance_files = ReportBalance(x, Num(10000), Num(20000))
           /\ \E rows \in SeqsUpTo(ReportDividendRows(x), MaxDivRows) :
                 dividend_files = ReportDividend(x, rows)
           /\ \E price \in PriceChoices : price_file = ReportListing(x, price)
        \/ /\ \E eps_raw \in EpsChoices : income_files = ScatteredIncome(x, eps_raw)
           /\ balance_files = ScatteredBalance
           /\ dividend_files = ScatteredDividend
           /\ price_file = ScatteredListing(x)
    /\ Idle

Next ==
    \/ Precompute
    \/ \E years \in Requests : Generate(years)

Spec == InitReport /\ [][Next]_vars

\* fetch_stock_prices rewrites latest_stock_prices.csv.
DeliverPrices(listing) ==
    /\ price_file # listing
    /\ price_file' = listing
    /\ UNCHANGED <<income_files, balance_files, dividend_files, ledger_file, manifest,
                   last_precompute, lookups, request, metrics, report, last_generate, call,
                   writer, reader>>

NextLedger ==
    \/ Precompute
    \/ \E listing \in ListingChoices : DeliverPrices(listing)

SpecLedger == InitLedger /\ [][NextLedger]_vars

-----------------------------------------------------------------------------
(* precompute writing the ledger file while another process loads it *)

\* A run that writes the manifest before it opens the ledger file.
OpenLedger_ManifestFirst ==
    LET out == precompute(income_files, balance_files, dividend_files, price_file)
    IN  /\ ~writer.open
        /\ out.status = "ok"
        /\ writer' = Writing(out.result, out.log, ledger_file)
        /\ ledger_file' = File(<<>>)
        /\ manifest' = out.log
        /\ UNCHANGED <<income_files, balance_files, dividend_files, price_file,
                       last_precompute, lookups, request, metrics, report, last_generate,
                       call, reader>>

\* result.to_csv(self.output_file, ...) opens the ledger file for writing,
\* which truncates it; the rows reach the file as the buffer is flushed.
OpenLedger ==
    LET out == precompute(income_files, balance_files, dividend_files, price_file)
    IN  /\ ~writer.open
        /\ out.status = "ok"
        /\ writer' = Writing(out.result, out.log, ledger_file)
        /\ ledger_file' = File(<<>>)
        /\ UNCHANGED <<income_files, balance_files, dividend_files, price_file, manifest,
                       last_precompute, lookups, request, metrics, report, last_generate,
                       call, reader>>

\* A flush of the buffer: the next n rows reach the file.
FlushLedger(n) ==
    /\ writer.open
    /\ Len(ledger_file.rows) + n <= Len(writer.result)
    /\ ledger_file' = File(SubSeq(writer.result, 1, Len(ledger_file.rows) + n))
    /\ UNCHANGED <<income_files, balance_files, dividend_files, price_file, manifest,
                   last_precompute, lookups, request, metrics, report, last_generate,
                   call, writer, reader>>

\* to_csv returns with every row written; precompute writes the manifest and returns.
CloseLedger ==
    /\ writer.open
    /\ ledger_file.rows = writer.result
    /\ writer' = NoWriter
    /\ manifest' = writer.log
    /\ last_precompute' = "ok"
    /\ UNCHANGED <<income_files, balance_files, dividend_files, price_file, ledger_file,
                   lookups, request, metrics, report, last_generate, call, reader>>

\* HistoricalMetricsLoader.load_metrics in another process: pd.read_csv of
\* the file as it is now.  A file without a header line (opened for writing
\* and nothing flushed yet) makes read_csv raise, re-raised as RuntimeError.
ReadLedger ==
    /\ reader' = IF ~ledger_file.exists
                  THEN [rows |-> <<>>, status |-> "FileNotFoundError"]
                  ELSE IF writer.open /\ ledger_file.rows = <<>>
                  THEN [rows |-> <<>>, status |-> "RuntimeError"]
                  ELSE [rows |-> load_metrics(ledger_file.rows), status |-> "ok"]
    /\ UNCHANGED <<income_files, balance_files, dividend_files, price_file, ledger_file,
                   manifest, last_precompute, lookups, request, metrics, report,
                   last_generate, call, writer>>

\* The extracts of 99 and 100 of two securities, and any listing.
InitWrite ==
    /\ income_files =
          (Y99 :> File(<<Inc(CodeB, Y99, Q4, Num(200), Num(1000))>>))
          @@ (Y100 :> File(<<Inc(CodeA, Y100, Q4, Num(500), Num(3000))>>))
    /\ balance_files = (Y99 :> NoFile) @@ (Y100 :> File(<<Bal(CodeA, Y100, Q4, Num(20000))>>))
    /\ dividend_files = (Y99 :> File(<<Div(CodeB, Y99, Num(100))>>)) @@ (Y100 :> NoFile)
    /\ price_file \in ListingChoices
    /\ Idle

NextWrite ==
    \/ OpenLedger
    \/ \E n \in 1..3 : FlushLedger(n)
    \/ CloseLedger
    \/ ReadLedger
    \/ \E listing \in ListingChoices : DeliverPrices(listing)

SpecWrite == InitWrite /\ [][NextWrite]_vars

-----------------------------------------------------------------------------
(* The calculator's functions applied on their own *)

\* Longest per-year series handed to the trailing averages.
MaxSeries == 10

\* All dicts with keys among keys and values among values.
RECURSIVE DictsOver(_, _)
DictsOver(keys, values) ==
    IF keys = {} THEN {EmptyDict}
    ELSE LET k == CHOOSE x \in keys : TRUE
             rest == DictsOver(keys \ {k}, values)
         IN  rest \cup {Set(d, k, v) : d \in rest, v \in values}

\* Equity of the year ends and third quarters of 113 and 114, and of another security.
EquityLookups ==
    DictsOver({<<PyStr(CodeC), Y113, Q4>>, <<PyStr(CodeC), Y114, Q4>>, <<PyStr(CodeC), Y114, Q3>>,
               <<PyStr(CodeC), Y113, Q3>>, <<PyStr(CodeA), Y114, Q4>>}, {10000, 20000})

\* The cumulative EPS 1.0, 2.5, 4.0, 5.0 of the quarters of 114, each filed or not.
CumulativeEps == (Q1 :> 100) @@ (Q2 :> 250) @@ (Q3 :> 400) @@ (Q4 :> 500)

EpsLookups ==
    {[k \in {<<PyStr(CodeC), Y114, q>> : q \in filed}
           \cup {<<PyStr(CodeC), Y113, q>> : q \in before} |->
        IF k[2] = Y114 THEN CumulativeEps[k[3]] ELSE 300 + CumulativeEps[k[3]]] :
     filed \in SUBSET {Q1, Q2, Q3, Q4}, before \in {{}, {Q4}, {Q3, Q4}}}

\* Quarter sequences, oldest first: the quarters of one year, windows that
\* start in the year before, and one with a gap over the turn of the year.
SeasonLists ==
    { <<>>, <<Y114 \o Q1>>, <<Y113 \o Q4, Y114 \o Q2, Y114 \o Q3>>,
      <<Y114 \o Q1, Y114 \o Q2, Y114 \o Q3, Y114 \o Q4>>,
      <<Y113 \o Q4, Y114 \o Q1, Y114 \o Q2, Y114 \o Q3, Y114 \o Q4>>,
      <<Y113 \o Q3, Y113 \o Q4, Y114 \o Q1, Y114 \o Q2, Y114 \o Q3>> }

\* Per-year series, newest year first: the i-th year has the value i.00 unless
\* it is absent; the newest year is absent, 1.00 or 99.00.
SeriesMasks(n) == {{}, {2}, {3, 5}, {2, 3, 4}, 2..n}

SeriesChoices ==
    {[i \in 1..n |-> IF i = 1 THEN first ELSE IF i \in mask THEN nan ELSE Some(100 * i)] :
     n \in 0..MaxSeries, first \in {nan, Some(100), Some(9900)}, mask \in SeriesMasks(MaxSeries)}

\* Most rows of a ledger handed to build_lookups_from_metrics.
MaxLedgerRows == 2

\* Ledger rows of 2330B in 114 for the periods Q3, Q4 and Y1, each with no
\* value, every value, EPS and dividend only, or profit and equity only,
\* and a row of 1101.
LedgerRowChoices ==
    {[code |-> CodeC, year |-> Y114, quarter |-> q, eps |-> v[1], profit |-> v[2],
      equity |-> v[3], cash_dividend |-> v[4]] :
        q \in {Q3, Q4, Y1},
        v \in {<<nan, nan, nan, nan>>, <<Some(100), Some(1000), Some(20000), Some(500)>>,
               <<Some(250), nan, nan, Some(300)>>, <<nan, Some(2000), Some(10000), nan>>}}
    \cup {[code |-> CodeA, year |-> Y114, quarter |-> Q4, eps |-> Some(700),
           profit |-> Some(900), equity |-> Some(30000), cash_dividend |-> Some(100)]}

LedgerChoices == SeqsUpTo(LedgerRowChoices, MaxLedgerRows)

NoExtracts == (Y113 :> NoFile) @@ (Y114 :> NoFile)

InitCalls ==
    /\ income_files = NoExtracts
    /\ balance_files = NoExtracts
    /\ dividend_files = NoExtracts
    /\ price_file = NoListing
    /\ Idle

Returns(record) ==
    /\ call' = record
    /\ UNCHANGED <<income_files, balance_files, dividend_files, price_file, ledger_file,
                   manifest, last_precompute, lookups, request, metrics, report, last_generate,
                   writer, reader>>

CallAvgEquity(equity_lookup, code, year) ==
    Returns(Called("calc_avg_equity", equity_lookup, code, year, <<>>, <<>>,
                   calc_avg_equity(equity_lookup, code, year)))

CallSingleQuarterEps(eps_lookup, code, seasons_sorted) ==
    Returns(Called("calc_single_quarter_eps", eps_lookup, code, <<>>, seasons_sorted, <<>>,
                   calc_single_quarter_eps(eps_lookup, code, seasons_sorted)))

CallTrailingAverages(series) ==
    Returns(Called("avg_last_n", EmptyDict, <<>>, <<>>, <<>>, series,
                   TrailingAverages(series, DIVIDEND)))

\* load_metrics of a ledger and build_lookups_from_metrics of the frame.
CallBuildLookups(rows) ==
    Returns(Called("build_lookups_from_metrics", EmptyDict, <<>>, <<>>, <<>>,
                   load_metrics(rows), build_lookups_from_metrics(load_metrics(rows))))

NextCalls ==
    \/ \E equity_lookup \in EquityLookups, year \in {Y113, Y114} :
          CallAvgEquity(equity_lookup, PyStr(CodeC), year)
    \/ \E eps_lookup \in EpsLookups, seasons_sorted \in SeasonLists :
          CallSingleQuarterEps(eps_lookup, PyStr(CodeC), seasons_sorted)
    \/ \E series \in SeriesChoices : CallTrailingAverages(series)
    \/ \E rows \in LedgerChoices : CallBuildLookups(rows)

SpecCalls == InitCalls /\ [][NextCalls]_vars

-----------------------------------------------------------------------------
(* The ledger written by precompute *)

\* The rows of a table's extracts as positions <<year of the file, index>>.
ExtractRows(files) == UNION {{<<y, i>> : i \in 1..Len(files[y].rows)} : y \in DOMAIN files}

\* Some (code, year, period) key is reported by two rows of the table.
RepeatsKey(files) ==
    \E p \in ExtractRows(files), q \in ExtractRows(files) :
        p # q /\ KeyOf(files[p[1]].rows[p[2]]) = KeyOf(files[q[1]].rows[q[2]])

LedgerKeysUnique ==
    \A i \in 1..Len(ledger_file.rows), j \in 1..Len(ledger_file.rows) :
        i # j => KeyOf(ledger_file.rows[i]) # KeyOf(ledger_file.rows[j])

PeriodPlace(q) ==
    IF q = Q4 THEN 1 ELSE IF q = Q3 THEN 2 ELSE IF q = Q2 THEN 3 ELSE IF q = Q1 THEN 4 ELSE 5

\* Row a may stand before row b in the ledger.
LedgerOrdered(a, b) ==
    \/ StrLess(a.code, b.code)
    \/ /\ a.code = b.code
       /\ \/ DigitsToInt(a.year) > DigitsToInt(b.year)
          \/ /\ DigitsToInt(a.year) = DigitsToInt(b.year)
             /\ PeriodPlace(a.quarter) <= PeriodPlace(b.quarter)

\* C9: the ledger's rows are ordered by code ascending, then year descending
\* as integers, then Q4, Q3, Q2, Q1 and last Y1.
C9_LedgerOrder ==
    ledger_file.exists =>
        \A i \in 1..Len(ledger_file.rows), j \in 1..Len(ledger_file.rows) :
            i < j => LedgerOrdered(ledger_file.rows[i], ledger_file.rows[j])

\* A ledger with two codes, the years 99 and 100 of one code (which compare the
\* other way round as text), and a quarter and a Y1 row of one code and year.
C9_Witness ==
    /\ ledger_file.exists
    /\ \E i \in 1..Len(ledger_file.rows), j \in 1..Len(ledger_file.rows),
          k \in 1..Len(ledger_file.rows), l \in 1..Len(ledger_file.rows) :
          /\ ledger_file.rows[i].code # ledger_file.rows[j].code
          /\ ledger_file.rows[i].code = ledger_file.rows[k].code
          /\ ledger_file.rows[i].year = Y100 /\ ledger_file.rows[k].year = Y99
          /\ ledger_file.rows[l].code = ledger_file.rows[i].code
          /\ ledger_file.rows[l].year = Y100
          /\ ledger_file.rows[l].quarter = Y1 /\ ledger_file.rows[i].quarter \in {Q1, Q2, Q3, Q4}

-----------------------------------------------------------------------------
(* The report written by generate *)

\* The lookups in hand were built from the ledger on disk: a generate() got
\* past reading it.  (The extracts never change, so neither does a ledger
\* once written.)
Loaded == last_generate \in {"ok", "KeyError", "ValueError"}

\* The (code, year) under which build_lookups_from_metrics files a ledger row.
DividendKey(row) == <<PyStr(strip(str(row.code))), strip(str(row.year))>>

\* The non-absent dividends of the Y1 rows of the ledger for a (code, year).
DividendsOf(rows, k) ==
    {Val(rows[i].cash_dividend) : i \in
        {j \in 1..Len(rows) : /\ rows[j].quarter = Y1
                               /\ DividendKey(rows[j]) = k
                               /\ ~isna(rows[j].cash_dividend)}}

\* The value of a record (a row dict of calculate) under a column name.
Cell(record, column) == record.vals[column]

-----------------------------------------------------------------------------
(* The calculator's functions *)

\* C3: calc_avg_equity gives the mean of the Q4 equity of the year before and
\* of the year when both are filed, the one that is filed when only one is,
\* and nothing when neither is; no entry of another quarter or code decides it.
C3_AvgEquity ==
    call.fn = "calc_avg_equity" =>
        LET before == Get(call.lookup,
                          <<call.code, IntToStr(DigitsToInt(call.year) - 1), Q4>>)
            closing == Get(call.lookup, <<call.code, call.year, Q4>>)
        IN  IF ~isna(before) /\ ~isna(closing)
            THEN /\ ~isna(call.result)
                 /\ 2 * call.result[1] = (Val(before) + Val(closing)) * call.result[2]
            ELSE IF ~isna(closing) THEN call.result = <<Val(closing), 1>>
            ELSE IF ~isna(before) THEN call.result = <<Val(before), 1>>
            ELSE isna(call.result)

\* The mean 150.00 of the year ends 100.00 and 200.00, with a third-quarter
\* balance of the year filed as well.
C3_Witness ==
    /\ call.fn = "calc_avg_equity"
    /\ call.year = Y114
    /\ <<call.code, Y114, Q3>> \in DOMAIN call.lookup
    /\ Get(call.lookup, <<call.code, Y113, Q4>>) = Some(10000)
    /\ Get(call.lookup, <<call.code, Y114, Q4>>) = Some(20000)
    /\ call.result = <<30000, 2>>

\* All four quarters of 114 are filed in the lookup of the call.
FourFiled == \A q \in {Q1, Q2, Q3, Q4} : <<call.code, Y114, q>> \in DOMAIN call.lookup

OneYear == <<Y114 \o Q1, Y114 \o Q2, Y114 \o Q3, Y114 \o Q4>>

\* C6 as stated: the quarters Q1..Q4 of one year with the cumulative EPS 1.0,
\* 2.5, 4.0, 5.0 give the four values 1.0, 1.5, 1.5, 1.0.
C6_OneValuePerQuarter ==
    (call.fn = "calc_single_quarter_eps" /\ call.seasons_sorted = OneYear /\ FourFiled)
        => call.result = <<Some(100), Some(150), Some(150), Some(100)>>

\* C6: calc_single_quarter_eps gives one value for every entry after the
\* first: Q1..Q4 of one year give the three values 1.5, 1.5, 1.0, and only
\* with the quarter before in front do they give 1.0, 1.5, 1.5, 1.0.
C6_OneValuePerLaterQuarter ==
    call.fn = "calc_single_quarter_eps" =>
        /\ Len(call.result) =
              IF call.seasons_sorted = <<>> THEN 0 ELSE Len(call.seasons_sorted) - 1
        /\ (call.seasons_sorted = OneYear /\ FourFiled)
              => call.result = <<Some(150), Some(150), Some(100)>>
        /\ (call.seasons_sorted = <<Y113 \o Q4>> \o OneYear /\ FourFiled)
              => call.result = <<Some(100), Some(150), Some(150), Some(100)>>

\* The call on Q1..Q4 of 114, all filed, returning three values.
C6_Witness ==
    /\ call.fn = "calc_single_quarter_eps"
    /\ call.seasons_sorted = OneYear
    /\ FourFiled
    /\ Len(call.result) = 3

\* The sum of the values of a series at the places idx.
RECURSIVE SumAt(_, _)
SumAt(series, idx) ==
    IF idx = {} THEN 0
    ELSE LET i == CHOOSE x \in idx : TRUE IN Val(series[i]) + SumAt(series, idx \ {i})

\* r is num / den rounded to the nearest integer.
IsRounded(r, num, den) == 2 * Abs(r * den - num) <= Abs(den)

\* The average column of a call on the trailing averages for n years.
TrailingOf(n) == (CHOOSE kv \in {call.result[i] : i \in 1..3} : kv[1] = AvgCol(n, DIVIDEND))[2]

\* C7: the average over n years (3, 5, 8) is the mean, rounded to 2 decimals,
\* of the values that are present among the n years after the first of the
\* series (fewer when the series is shorter), and is absent when none is; the
\* first year's value has no part in it.
C7_TrailingAverages ==
    call.fn = "avg_last_n" =>
        \A w \in {<<"3", 3>>, <<"5", 5>>, <<"8", 8>>} :
            LET present == {i \in 2..Len(call.series) :
                              i <= w[2] + 1 /\ ~isna(call.series[i])}
            IN  IF present = {} THEN isna(TrailingOf(w[1]))
                ELSE /\ ~isna(TrailingOf(w[1]))
                     /\ IsRounded(Val(TrailingOf(w[1])), SumAt(call.series, present),
                                  Cardinality(present))

\* A series of ten years whose first year holds 99.00 and whose third and
\* fifth years are absent: the three averages differ and none is 99.00's.
C7_Witness ==
    /\ call.fn = "avg_last_n"
    /\ Len(call.series) = 10
    /\ call.series[1] = Some(9900)
    /\ isna(call.series[3]) /\ isna(call.series[5])
    /\ TrailingOf("3") = Some(300)
    /\ TrailingOf("5") = Some(400)
    /\ TrailingOf("8") = Some(600)

-----------------------------------------------------------------------------
(* The records and the report of generate *)

\* The year before year y.
YearBefore(y) == IntToStr(DigitsToInt(y) - 1)

\* C4: the ROE of a record for a requested year is absent when the year's
\* profit is absent, when the equity of both year ends is absent, or when the
\* average equity is zero; otherwise it is profit / average equity x 100
\* rounded to 2 decimals.
C4_Roe ==
    \A i \in 1..Len(metrics), j \in 1..Len(request) :
        LET code == Cell(metrics[i], COL_CODE)
            y == request[j]
            profit == Get(lookups.profit_lookup, <<code, y>>)
            ends == {e \in {Get(lookups.equity_lookup, <<code, YearBefore(y), Q4>>),
                            Get(lookups.equity_lookup, <<code, y, Q4>>)} : ~isna(e)}
            both == ~isna(Get(lookups.equity_lookup, <<code, YearBefore(y), Q4>>))
                    /\ ~isna(Get(lookups.equity_lookup, <<code, y, Q4>>))
            total == IF both
                     THEN lookups.equity_lookup[<<code, YearBefore(y), Q4>>]
                          + lookups.equity_lookup[<<code, y, Q4>>]
                     ELSE IF ends = {} THEN 0 ELSE Val(CHOOSE e \in ends : TRUE)
            count == IF both THEN 2 ELSE 1
            roe == Cell(metrics[i], y \o ROE)
        IN  IF isna(profit) \/ ends = {} \/ total = 0
            THEN isna(roe)
            ELSE ~isna(roe) /\ IsRounded(Val(roe), 10000 * Val(profit) * count, total)

\* Records of a report on 114: one whose ROE is 10.00 over the mean of 100.00
\* and 200.00, i.e. 6.67, and one without profit whose ROE is absent.
C4_Witness ==
    /\ last_generate = "ok"
    /\ request # <<>> /\ request[1] = Y114
    /\ \E i \in 1..Len(metrics), k \in 1..Len(metrics) :
          /\ Get(lookups.profit_lookup, <<Cell(metrics[i], COL_CODE), Y114>>) = Some(1000)
          /\ Get(lookups.equity_lookup, <<Cell(metrics[i], COL_CODE), Y113, Q4>>) = Some(10000)
          /\ Get(lookups.equity_lookup, <<Cell(metrics[i], COL_CODE), Y114, Q4>>) = Some(20000)
          /\ Cell(metrics[i], Y114 \o ROE) = Some(667)
          /\ isna(Get(lookups.profit_lookup, <<Cell(metrics[k], COL_CODE), Y114>>))
          /\ ~isna(Get(lookups.equity_lookup, <<Cell(metrics[k], COL_CODE), Y113, Q4>>))
          /\ isna(Cell(metrics[k], Y114 \o ROE))

\* The close price of a code in the price file: the price cell of its last
\* row when that cell is a number.
ClosePrice(code) ==
    LET quotes == {i \in 1..Len(price_file.rows) : PyStr(price_file.rows[i].code) = code}
        cell == price_file.rows[MaxOf(quotes)].price
    IN  IF quotes = {} \/ cell \in {Empty, Garbage} THEN nan ELSE Some(cell[2])

\* C5: the yield of a record for a requested year is absent when the year's
\* dividend is absent, when the close price is missing or unparsable, or when
\* it is zero; otherwise it is dividend / price x 100 rounded to 2 decimals.
C5_Yield ==
    \A i \in 1..Len(metrics), j \in 1..Len(request) :
        LET dividend == Cell(metrics[i], request[j] \o CASH_DIV)
            price == ClosePrice(Cell(metrics[i], COL_CODE))
            yield == Cell(metrics[i], request[j] \o YIELD)
        IN  /\ Cell(metrics[i], COL_PRICE) = price
            /\ IF isna(dividend) \/ isna(price) \/ Val(price) = 0
               THEN isna(yield)
               ELSE ~isna(yield) /\ IsRounded(Val(yield), 10000 * Val(dividend), Val(price))

\* Records of a report on 114: one with the dividend 5.00 at the price 70.00,
\* whose yield is 7.14, and one with a price but no dividend, whose yield is absent.
C5_Witness ==
    /\ last_generate = "ok"
    /\ request # <<>> /\ request[1] = Y114
    /\ \E i \in 1..Len(metrics), k \in 1..Len(metrics) :
          /\ Cell(metrics[i], Y114 \o CASH_DIV) = Some(500)
          /\ Cell(metrics[i], COL_PRICE) = Some(7000)
          /\ Cell(metrics[i], Y114 \o YIELD) = Some(714)
          /\ isna(Cell(metrics[k], Y114 \o CASH_DIV))
          /\ ~isna(Cell(metrics[k], COL_PRICE))
          /\ isna(Cell(metrics[k], Y114 \o YIELD))

\* The ledger holds no equity of year y for any security.
NoBalanceData(y) ==
    \A i \in 1..Len(ledger_file.rows) :
        ledger_file.rows[i].year = y => isna(ledger_file.rows[i].equity)

\* The four per-year columns of year y.
YearColumns(y) == {y \o CASH_DIV, y \o YIELD, y \o ROE, y \o EPS_YEAR}

\* The columns of a report for the years given on one security without data.
DatalessColumns(years) ==
    assemble(<<MetricRow(EmptyLookups, <<>>, EmptyDict, EmptyDict, years, PyStr(<<>>))>>).columns

ReportColumnsStable ==
    /\ \A j \in 1..Len(request) :
          YearColumns(request[j]) \subseteq {report.columns[c] : c \in 1..Len(report.columns)}
    /\ report.columns = DatalessColumns(request)

RoeColumnAbsent(y) == \A i \in 1..Len(report.rows) : isna(report.rows[i][y \o ROE])

\* C8 as stated: the report has the four columns of every requested year, its
\* columns depend on the requested years only, and the ROE column of a year
\* for which no security has balance data holds no value.
C8_ColumnsAndAbsentRoeOfYear ==
    last_generate = "ok" =>
        /\ ReportColumnsStable
        /\ \A j \in 1..Len(request) : NoBalanceData(request[j]) => RoeColumnAbsent(request[j])

\* C8: the report has the four columns of every requested year, its columns
\* depend on the requested years only, and the ROE column of a year holds no
\* value when no security has balance data for that year and the year before.
C8_ColumnsAndAbsentRoe ==
    last_generate = "ok" =>
        /\ ReportColumnsStable
        /\ \A j \in 1..Len(request) :
              (NoBalanceData(request[j]) /\ NoBalanceData(YearBefore(request[j])))
                  => RoeColumnAbsent(request[j])

\* A report on 114 and 113 from a ledger without equity of 113 and 112: the
\* ROE column of 113 is there and empty, that of 114 holds a value.
C8_Witness ==
    /\ last_generate = "ok"
    /\ request = <<Y114, Y113>>
    /\ NoBalanceData(Y113) /\ NoBalanceData(Y112) /\ ~NoBalanceData(Y114)
    /\ \E c \in 1..Len(report.columns) : report.columns[c] = Y113 \o ROE
    /\ RoeColumnAbsent(Y113)
    /\ ~RoeColumnAbsent(Y114)

\* C10 as stated: the last two columns of the report are the sum of the last
\* four quarters' EPS and then its difference rate against the year before.
C10_LastTwoColumns ==
    last_generate = "ok" =>
        /\ Len(report.columns) >= 2
        /\ report.columns[Len(report.columns) - 1] = EPS_4Q
        /\ report.columns[Len(report.columns)] = EPS_4Q_DIFF

-----------------------------------------------------------------------------
(* The layout of the assembled report *)

\* The identity columns and then the four groups of the years given.
LeadingColumns(years) ==
    <<COL_CODE, COL_NAME, COL_PRICE, COL_DATE>>
    \o [i \in 1..Len(years) |-> years[i] \o CASH_DIV]
    \o [i \in 1..Len(years) |-> years[i] \o YIELD]
    \o [i \in 1..Len(years) |-> years[i] \o ROE]
    \o [i \in 1..Len(years) |-> years[i] \o EPS_YEAR]

\* The requested years run downwards as numbers.
DescendingYears(years) ==
    \A i \in 1..(Len(years) - 1) : DigitsToInt(years[i]) > DigitsToInt(years[i + 1])

\* The keys of the records in the order calculate produced them, those of the
\* leading columns left out.
ProducedAfter(lead) ==
    LET IsLater(c) == \A j \in 1..Len(lead) : lead[j] # c
    IN  SelectSeq(FrameColumns(metrics), IsLater)

\* C11: the report's columns are code, name, close price, close date, then
\* the cash-dividend, yield, ROE and annual-EPS columns of all years (years
\* descending inside each group), then every remaining column in the order
\* in which it was produced.
C11_ColumnLayout ==
    last_generate = "ok" =>
        /\ DescendingYears(request)
        /\ report.columns = LeadingColumns(request) \o ProducedAfter(LeadingColumns(request))

\* The code cells of the report's rows, top to bottom.
ReportCodes == [i \in 1..Len(report.rows) |-> report.rows[i][COL_CODE]]

\* Code a comes before code b: by value for integer codes, by code point for text.
CodeBefore(a, b) ==
    IF a[1] = "int" /\ b[1] = "int" THEN DigitsToInt(a[2]) < DigitsToInt(b[2])
    ELSE a[1] = "str" /\ b[1] = "str" /\ StrLess(a[2], b[2])

\* C12: the rows of the report are strictly ascending by security code, so
\* no two rows carry the same code, and they are the records calculate made,
\* one row for each.
C12_RowsAscendingByCode ==
    last_generate = "ok" =>
        /\ \A i \in 1..Len(ReportCodes), j \in 1..Len(ReportCodes) :
              i < j => CodeBefore(ReportCodes[i], ReportCodes[j])
        /\ Len(report.rows) = Len(metrics)
        /\ {ReportCodes[i] : i \in 1..Len(ReportCodes)}
              = {metrics[i].vals[COL_CODE] : i \in 1..Len(metrics)}

\* A report of three securities whose records were made in another order
\* than that of their codes.
C12_Witness ==
    /\ last_generate = "ok"
    /\ Len(report.rows) = 3
    /\ \E i \in 1..Len(metrics), j \in 1..Len(metrics) :
          i < j /\ CodeBefore(metrics[j].vals[COL_CODE], metrics[i].vals[COL_CODE])

-----------------------------------------------------------------------------
(* The ledger against the extracts it was built from *)

\* The ledger file holds what precompute writes for the extracts and the
\* listing as they are now.
LedgerIsCurrent ==
    /\ last_precompute = "ok"
    /\ ledger_file = File(precompute(income_files, balance_files, dividend_files, price_file).result)

\* The (code, year, period) keys reported by the rows of a table's extracts.
ReportedKeys(files) ==
    UNION {{KeyOf(files[y].rows[i]) : i \in 1..Len(files[y].rows)} : y \in DOMAIN files}

\* The listing names at least one code.
ListingUsable == price_file.exists /\ price_file.code_col /\ price_file.rows # <<>>

\* The code passes the universe restriction.
InUniverse(code) ==
    ListingUsable => \E i \in 1..Len(price_file.rows) : price_file.rows[i].code = code

\* No field of a ledger row holds a value unless its table reports the row's key.
NothingBackfilled ==
    \A i \in 1..Len(ledger_file.rows) :
        LET row == ledger_file.rows[i]
        IN  /\ KeyOf(row) \notin ReportedKeys(income_files) => isna(row.eps) /\ isna(row.profit)
            /\ KeyOf(row) \notin ReportedKeys(balance_files) => isna(row.equity)
            /\ KeyOf(row) \notin ReportedKeys(dividend_files) => isna(row.cash_dividend)

\* C13: every key reported by an income, balance or dividend extract, its code
\* passing the universe restriction, has a row in the ledger, and a field of
\* a ledger row whose table does not report the row's key is absent.
C13_OuterUnion ==
    LedgerIsCurrent =>
        /\ \A k \in ReportedKeys(income_files) \cup ReportedKeys(balance_files)
                     \cup ReportedKeys(dividend_files) :
              InUniverse(k[1]) => \E i \in 1..Len(ledger_file.rows) : KeyOf(ledger_file.rows[i]) = k
        /\ NothingBackfilled

\* Some income-statement extract exists.
IncomeExists == \E y \in DOMAIN income_files : income_files[y].exists

\* The ledger holds no value of the field for a year whose extract is missing.
AbsentWhereMissing(files, Field(_)) ==
    \A i \in 1..Len(ledger_file.rows) :
        LET row == ledger_file.rows[i]
        IN  (row.year \in DOMAIN files /\ ~files[row.year].exists) => isna(Field(row))

EquityOf(row) == row.equity

CashDividendOf(row) == row.cash_dividend

\* C14: when income-statement extracts exist, a run of precompute completes
\* and writes the ledger whichever balance-sheet and dividend extracts are
\* missing, some or all of them, and the ledger holds no equity (no cash
\* dividend) for a year whose balance-sheet (dividend) extract is missing.
C14_MissingExtractsTolerated ==
    (last_precompute # "none" /\ IncomeExists) =>
        /\ last_precompute = "ok"
        /\ ledger_file.exists
        /\ AbsentWhereMissing(balance_files, EquityOf)
        /\ AbsentWhereMissing(dividend_files, CashDividendOf)

\* The fiscal years for which some extract was delivered without the
\* income-statement extract.
YearsLackingIncome ==
    {y \in DOMAIN income_files :
        ~income_files[y].exists /\ (balance_files[y].exists \/ dividend_files[y].exists)}

\* The text names the year.
NamesYear(text, y) == \E i \in 1..Len(text) : i + Len(y) - 1 <= Len(text) /\ SubSeq(text, i, i + Len(y) - 1) = y

\* C15: when the income-statement extract of a fiscal year is missing, a run
\* of precompute aborts with an error whose message names that year, also
\* when the income-statement extracts of other years exist.
C15_MissingIncomeYearFatal ==
    \A y \in YearsLackingIncome :
        last_precompute # "none" =>
            /\ last_precompute = "ValueError"
            /\ NamesYear(NO_INCOME_MESSAGE, y)

\* Some extract with rows of the table was read: one of a year that has an
\* income-statement extract.
ExtractRead(files) ==
    \E y \in DOMAIN files : income_files[y].exists /\ files[y].exists /\ files[y].rows # <<>>

\* The keys reported by the extracts that precompute reads.
KeysRead ==
    LET OfTable(files) ==
            UNION {{KeyOf(files[y].rows[i]) : i \in 1..Len(files[y].rows)} :
                   y \in {z \in DOMAIN files : income_files[z].exists}}
    IN  OfTable(income_files) \cup OfTable(balance_files) \cup OfTable(dividend_files)

\* C16: a run of precompute with a listing that names at least one code
\* writes only rows whose code is in the listing; a run with a listing that
\* is missing, empty, unreadable or without code column does not fail for it
\* and writes the rows of all securities.
C16_UniverseRestriction ==
    [][Precompute =>
        /\ (ListingUsable /\ last_precompute' = "ok") =>
              \A i \in 1..Len(ledger_file'.rows) :
                  \E j \in 1..Len(price_file.rows) :
                      price_file.rows[j].code = ledger_file'.rows[i].code
        /\ ~ListingUsable =>
              /\ (ExtractRead(income_files) /\ ExtractRead(balance_files)
                    /\ ExtractRead(dividend_files)) => last_precompute' = "ok"
              /\ last_precompute' = "ok" =>
                    {KeyOf(ledger_file'.rows[i]) : i \in 1..Len(ledger_file'.rows)} = KeysRead
    ]_vars

\* A ledger written under a listing that names 1101 only, from extracts that
\* report 2330 as well.
C16_Witness ==
    /\ LedgerIsCurrent
    /\ ListingUsable
    /\ ledger_file.rows # <<>>
    /\ \E k \in KeysRead : k[1] = CodeB
    /\ \A i \in 1..Len(ledger_file.rows) : ledger_file.rows[i].code = CodeA

-----------------------------------------------------------------------------
(* Ratios on absent operands and zero denominators *)

\* A ratio shown by a record has both operands and a denominator other than
\* zero (so a ratio lacking one of them is absent, not zero and not infinite).
Defined(ratio, numerator, denominator) ==
    ~isna(ratio) => ~isna(numerator) /\ ~isna(denominator) /\ Val(denominator) # 0

\* The yield, ROE and EPS difference rates of record i that belong to year y.
RatiosOfYearDefined(i, y) ==
    LET code == Cell(metrics[i], COL_CODE)
        Eps(year, q) == Get(lookups.eps_lookup, <<code, year, q>>)
        Equity(year) == Get(lookups.equity_lookup, <<code, year, Q4>>)
        equity == IF ~isna(Equity(y)) /\ ~isna(Equity(YearBefore(y)))
                  THEN Some(Val(Equity(y)) + Val(Equity(YearBefore(y))))
                  ELSE IF ~isna(Equity(y)) THEN Equity(y) ELSE Equity(YearBefore(y))
    IN  /\ Defined(Cell(metrics[i], y \o YIELD), Cell(metrics[i], y \o CASH_DIV),
                   ClosePrice(code))
        /\ Defined(Cell(metrics[i], y \o ROE), Get(lookups.profit_lookup, <<code, y>>), equity)
        /\ \A q \in {Q1, Q2, Q3, Q4} :
              SeasonDiffCol(y, q, YearBefore(y)) \in DOMAIN metrics[i].vals =>
                  Defined(Cell(metrics[i], SeasonDiffCol(y, q, YearBefore(y))),
                          Eps(y, q), Eps(YearBefore(y), q))

\* An average over the years after the first is shown only if the ratio of
\* one of those years can be computed.
AverageDefined(i, what, Numerator(_), Denominator(_)) ==
    \A n \in {"3", "5", "8"} :
        ~isna(Cell(metrics[i], AvgCol(n, what))) =>
            \E j \in 2..Len(request) :
                /\ ~isna(Numerator(request[j])) /\ ~isna(Denominator(request[j]))
                /\ Val(Denominator(request[j])) # 0

\* C17: calculate raises nothing for requests of three-digit years (none,
\* one or more), whatever entries are missing, zero or unparsable, and every
\* ratio or percentage of a record comes from operands that are present and
\* a denominator other than zero: it is absent otherwise, never zero and
\* never infinite.
C17_RatiosDefinedOrAbsent ==
    /\ (ledger_file.exists /\ last_generate \notin {"none", "FileNotFoundError"}) =>
          /\ last_generate \in {"ok", "KeyError"}
          /\ last_generate = "KeyError" => metrics = <<>>
    /\ \A i \in 1..Len(metrics) :
          LET code == Cell(metrics[i], COL_CODE)
              Dividend(y) == Cell(metrics[i], y \o CASH_DIV)
              AnnualEps(y) == Get(lookups.eps_lookup, <<code, y, Q4>>)
              Price(y) == ClosePrice(code)
          IN  /\ \A j \in 1..Len(request) : RatiosOfYearDefined(i, request[j])
              /\ AverageDefined(i, YIELD, Dividend, Price)
              /\ AverageDefined(i, PAYOUT, Dividend, AnnualEps)
              /\ ~isna(Cell(metrics[i], EPS_4Q_DIFF)) =>
                    /\ Len(request) > 1
                    /\ Defined(Cell(metrics[i], EPS_4Q_DIFF), Cell(metrics[i], EPS_4Q),
                               AnnualEps(request[2]))

\* A record of a report on 114 and 113 whose cumulative EPS of 113 is 0.00
\* at Q1 and at Q4: the difference rate of 114 Q1 and that of the last four
\* quarters against 113 are absent although the EPS of 114 Q1 and the sum of
\* the last four quarters are there.
C17_Witness ==
    /\ last_generate = "ok"
    /\ request = <<Y114, Y113>>
    /\ \E i \in 1..Len(metrics) :
          LET code == Cell(metrics[i], COL_CODE)
          IN  /\ Get(lookups.eps_lookup, <<code, Y113, Q1>>) = Some(0)
              /\ Get(lookups.eps_lookup, <<code, Y114, Q1>>) = Some(120)
              /\ isna(Cell(metrics[i], SeasonDiffCol(Y114, Q1, Y113)))
              /\ Get(lookups.eps_lookup, <<code, Y113, Q4>>) = Some(0)
              /\ ~isna(Cell(metrics[i], EPS_4Q))
              /\ isna(Cell(metrics[i], EPS_4Q_DIFF))

-----------------------------------------------------------------------------
(* Readers of the ledger file during a write *)

\* What load_metrics returns for a complete ledger file.
CompleteRead(file) ==
    IF file.exists THEN [rows |-> load_metrics(file.rows), status |-> "ok"]
    ELSE [rows |-> <<>>, status |-> "FileNotFoundError"]

\* C18: a load of the ledger file made while precompute is overwriting it
\* returns the complete previous ledger or the complete new one, never a
\* part of the new one and never an error for a half-written file.
C18_ReaderSeesCompleteLedger ==
    [][(ReadLedger /\ writer.open) =>
          reader' \in {CompleteRead(writer.previous), CompleteRead(File(writer.result))}]_vars

-----------------------------------------------------------------------------
(* The lookups against the ledger they are built from *)

\* The keys of the rows of a loaded ledger that satisfy Has, as the lookups
\* spell them.
PeriodKeys(rows, Has(_)) ==
    {<<PyStr(strip(str(rows[i].code))), strip(str(rows[i].year)), rows[i].quarter>> :
        i \in {j \in 1..Len(rows) : Has(rows[j])}}

YearKeys(rows, Has(_)) ==
    {<<PyStr(strip(str(rows[i].code))), strip(str(rows[i].year))>> :
        i \in {j \in 1..Len(rows) : Has(rows[j])}}

\* C19: the lookups built from a ledger hold an EPS (equity) entry for a
\* (code, year, period) exactly when a row of that key has an EPS (equity),
\* whatever the period; a profit entry for a (code, year) exactly when a Q4
\* row has a profit, and a dividend entry exactly when a Y1 row has a cash
\* dividend, so that rows of other periods add nothing to those two; nothing
\* is left over from another ledger.
C19_LookupsFromLedger ==
    call.fn = "build_lookups_from_metrics" =>
        LET rows == call.series
            HasEps(r) == ~isna(r.eps)
            HasEquity(r) == ~isna(r.equity)
            HasAnnualProfit(r) == r.quarter = Q4 /\ ~isna(r.profit)
            HasAnnualDividend(r) == r.quarter = Y1 /\ ~isna(r.cash_dividend)
        IN  /\ DOMAIN call.result.eps_lookup = PeriodKeys(rows, HasEps)
            /\ DOMAIN call.result.equity_lookup = PeriodKeys(rows, HasEquity)
            /\ DOMAIN call.result.profit_lookup = YearKeys(rows, HasAnnualProfit)
            /\ DOMAIN call.result.dividend_lookup = YearKeys(rows, HasAnnualDividend)

\* Lookups built from a Q3 row and a Y1 row that both hold EPS, profit,
\* equity and dividend: EPS and equity are filed for both periods, the
\* dividend for the year, and no profit.
C19_Witness ==
    /\ call.fn = "build_lookups_from_metrics"
    /\ Len(call.series) = 2
    /\ call.series[1].quarter = Q3 /\ call.series[2].quarter = Y1
    /\ \A i \in 1..2 : ~isna(call.series[i].profit) /\ ~isna(call.series[i].cash_dividend)
    /\ DOMAIN call.result.eps_lookup = {<<PyStr(CodeC), Y114, Q3>>, <<PyStr(CodeC), Y114, Y1>>}
    /\ DOMAIN call.result.equity_lookup = DOMAIN call.result.eps_lookup
    /\ call.result.profit_lookup = EmptyDict
    /\ DOMAIN call.result.dividend_lookup = {<<PyStr(CodeC), Y114>>}

-----------------------------------------------------------------------------
(* The securities that get a record *)

\* The ledger as generate loaded it.
LedgerFrame == load_metrics(ledger_file.rows)

\* The rows of the ledger that reach calculate: the quarterly rows of the
\* requested years and of the year before them (they carry the income
\* statement and the balance sheet values), and the Y1 rows of the requested
\* years (the dividends).
QuarterlyFeed ==
    {i \in 1..Len(LedgerFrame) :
        /\ LedgerFrame[i].quarter \in {Q1, Q2, Q3, Q4}
        /\ InList(str(LedgerFrame[i].year), extended_years(request))}

DividendFeed ==
    {i \in 1..Len(LedgerFrame) :
        LedgerFrame[i].quarter = Y1 /\ InList(str(LedgerFrame[i].year), request)}

FeedCodes == {LedgerFrame[i].code : i \in QuarterlyFeed \cup DividendFeed}

\* The security has an equity on some row of the ledger.
HasBalanceRows(code) ==
    \E i \in 1..Len(LedgerFrame) : LedgerFrame[i].code = code /\ ~isna(LedgerFrame[i].equity)

\* The ROE fields of a record: one per requested year and the three averages.
RoeFields == {request[i] \o ROE : i \in 1..Len(request)}
             \cup {AvgCol("3", ROE), AvgCol("5", ROE), AvgCol("8", ROE)}

\* C20: after a successful generate the records are one for each security
\* that has a row in any of the feeds, the union of them and no security
\* twice; the record of a security without any balance-sheet value has all
\* its ROE fields absent.
C20_OneRecordPerSecurity ==
    last_generate = "ok" =>
        /\ {metrics[i].vals[COL_CODE] : i \in 1..Len(metrics)} = FeedCodes
        /\ Len(metrics) = Cardinality(FeedCodes)
        /\ \A i \in 1..Len(metrics) :
              ~HasBalanceRows(metrics[i].vals[COL_CODE]) =>
                  \A f \in RoeFields : isna(metrics[i].vals[f])

\* Records for three securities, of which one is in the dividend feed only,
\* one has quarterly rows with EPS and no equity, and one has an equity and
\* no EPS; the first two have no balance-sheet value.
C20_Witness ==
    /\ last_generate = "ok"
    /\ request = <<Y114, Y113>>
    /\ Len(metrics) = 3
    /\ \E i \in 1..Len(metrics) :
          /\ metrics[i].vals[COL_CODE] \notin {LedgerFrame[j].code : j \in QuarterlyFeed}
          /\ ~HasBalanceRows(metrics[i].vals[COL_CODE])
    /\ \E i \in 1..Len(metrics) :
          /\ metrics[i].vals[COL_CODE] \in {LedgerFrame[j].code : j \in QuarterlyFeed}
          /\ ~HasBalanceRows(metrics[i].vals[COL_CODE])
          /\ ~isna(metrics[i].vals[Y114 \o EPS_YEAR])
    /\ \E i \in 1..Len(metrics) :
          /\ HasBalanceRows(metrics[i].vals[COL_CODE])
          /\ isna(metrics[i].vals[Y114 \o EPS_YEAR])

-----------------------------------------------------------------------------
(* The trailing four quarters of a record *)

\* The cumulative EPS filed for the record's code.
CumulativeOf(code, y, q) == Get(lookups.eps_lookup, <<code, y, q>>)

QuarterBefore(q) == IF q = Q4 THEN Q3 ELSE IF q = Q3 THEN Q2 ELSE Q1

\* The single-quarter EPS of quarter q of year y: the cumulative value for Q1,
\* the step from the quarter before for the others.
SingleOf(code, y, q) ==
    IF q = Q1 THEN CumulativeOf(code, y, Q1)
    ELSE IF ~isna(CumulativeOf(code, y, q)) /\ ~isna(CumulativeOf(code, y, QuarterBefore(q)))
    THEN Some(Val(CumulativeOf(code, y, q)) - Val(CumulativeOf(code, y, QuarterBefore(q))))
    ELSE nan

\* The four quarters before the newest requested one (Q4 of the first year).
FourRecent(years) ==
    <<  <<years[1], Q3>>, <<years[1], Q2>>, <<years[1], Q1>>,
        <<IntToStr(DigitsToInt(years[1]) - 1), Q4>>  >>

SinglesOf(code, years) ==
    [k \in 1..4 |-> SingleOf(code, FourRecent(years)[k][1], FourRecent(years)[k][2])]

\* C21: the trailing-four-quarter EPS sum of a record is the sum of the
\* single-quarter EPS of the four most recent quarters that have one, and it
\* is absent exactly when none of the four has one.
C21_TrailingFourQuarterSum ==
    (last_generate = "ok" /\ request # <<>>) =>
        \A i \in 1..Len(metrics) :
            LET singles == DropNa(SinglesOf(metrics[i].vals[COL_CODE], request))
            IN  metrics[i].vals[EPS_4Q] = IF singles = <<>> THEN nan ELSE Some(SumSeq(singles))

-----------------------------------------------------------------------------
(* The year-over-year EPS difference of the recent quarters *)

\* The quarters of the requested years, newest first.
QuartersOf(years) ==
    Flatten([i \in 1..Len(years) |->
                <<  <<years[i], Q4>>, <<years[i], Q3>>, <<years[i], Q2>>, <<years[i], Q1>>  >>])

\* The four of them that follow the newest one (fewer when one year is requested).
RecentQuarters(years) ==
    SubSeq(QuartersOf(years), 2, IF Len(QuartersOf(years)) < 5 THEN Len(QuartersOf(years)) ELSE 5)

\* (curr - prev) / |prev| x 100 to 2 decimals, absent without curr, without
\* prev or with prev zero.
RateAgainst(curr, prev) ==
    IF isna(curr) \/ isna(prev) \/ prev = Some(0) THEN nan
    ELSE Some(RoundHalfEven((Val(curr) - Val(prev)) * 10000, Abs(Val(prev))))

-----------------------------------------------------------------------------
(* The manifest against the ledger *)

\* The fiscal years of the rows of the ledger file, as numbers.
LedgerYears == {DigitsToInt(ledger_file.rows[i].year) : i \in 1..Len(ledger_file.rows)}

LedgerCodes == {ledger_file.rows[i].code : i \in 1..Len(ledger_file.rows)}

\* C23: after a precompute that returned, the manifest's total_records is
\* the number of rows of the ledger it wrote, unique_stocks the number of
\* distinct codes among them, and year_range the least and the greatest
\* fiscal year of those rows.
C23_ManifestMatchesLedger ==
    last_precompute = "ok" =>
        /\ manifest.total_records = Len(ledger_file.rows)
        /\ manifest.unique_stocks = Cardinality(LedgerCodes)
        /\ \A y \in LedgerYears :
              /\ ~isna(manifest.year_min) /\ Val(manifest.year_min) <= y
              /\ ~isna(manifest.year_max) /\ y <= Val(manifest.year_max)
        /\ LedgerYears # {} =>
              Val(manifest.year_min) \in LedgerYears /\ Val(manifest.year_max) \in LedgerYears

\* A ledger with more rows than securities, of two securities, over the
\* years 99 and 100.
C23_Witness ==
    /\ last_precompute = "ok"
    /\ Cardinality(LedgerCodes) = 2
    /\ Len(ledger_file.rows) > 2
    /\ manifest.year_min = Some(99)
    /\ manifest.year_max = Some(100)

-----------------------------------------------------------------------------
(* The ledger rebuilt by every run *)

\* The ledger the extracts and the listing of this state determine.
LedgerOfInputs == precompute(income_files, balance_files, dividend_files, price_file).result

\* C24: a precompute run that returns writes the ledger that the extracts
\* and the price listing of that moment determine, whatever the ledger file
\* held before: every row it writes has its key in a current extract and,
\* when the listing names codes, its code in the listing, and a run on a
\* ledger that is already current writes the same ledger again.
C24_RebuiltWholesale ==
    [][(Precompute /\ last_precompute' = "ok") =>
          /\ ledger_file' = File(LedgerOfInputs)
          /\ \A i \in 1..Len(ledger_file'.rows) :
                /\ KeyOf(ledger_file'.rows[i]) \in
                      ReportedKeys(income_files) \cup ReportedKeys(balance_files)
                         \cup ReportedKeys(dividend_files)
                /\ ListingUsable => InUniverse(ledger_file'.rows[i].code)
          /\ LedgerIsCurrent => ledger_file' = ledger_file]_vars

\* The ledger is current, and the listing has kept a security of the
\* extracts out of it.
C24_Witness ==
    /\ LedgerIsCurrent
    /\ ledger_file.rows # <<>>
    /\ \E k \in ReportedKeys(income_files) :
          k[1] \notin {ledger_file.rows[i].code : i \in 1..Len(ledger_file.rows)}

-----------------------------------------------------------------------------
(* Dividends of zero *)

\* The cash-dividend cells that the dividend extract of year y reports for a code.
DividendCells(chars, y) ==
    IF y \in DOMAIN dividend_files
    THEN {dividend_files[y].rows[i].cash_dividend_raw :
             i \in {j \in 1..Len(dividend_files[y].rows) : dividend_files[y].rows[j].code = chars}}
    ELSE {}

\* The extract reports dividends for the code and the year, and all are zero.
OnlyZeroDividends(chars, y) == DividendCells(chars, y) = {Num(0)}

\* C25: a cash dividend of zero in an extract counts as absent: no row of
\* the ledger has a cash dividend of 0, no entry of dividend_lookup is 0,
\* no record shows a dividend of 0, and where the extract reports only zero
\* dividends for a security and a year the record's dividend and yield of
\* that year are absent.
C25_ZeroDividendAbsent ==
    /\ \A i \in 1..Len(ledger_file.rows) : ledger_file.rows[i].cash_dividend # Some(0)
    /\ \A k \in DOMAIN lookups.dividend_lookup : lookups.dividend_lookup[k] # 0
    /\ last_generate = "ok" =>
          \A i \in 1..Len(metrics), n \in 1..Len(request) :
              /\ Cell(metrics[i], request[n] \o CASH_DIV) # Some(0)
              /\ OnlyZeroDividends(str(Cell(metrics[i], COL_CODE)), request[n]) =>
                    /\ isna(Cell(metrics[i], request[n] \o CASH_DIV))
                    /\ isna(Cell(metrics[i], request[n] \o YIELD))

\* A record of a security with a close price and an annual EPS whose only
\* dividends of 114 are zero, from a ledger that has its Y1 row of 114.
C25_Witness ==
    /\ last_generate = "ok"
    /\ request # <<>> /\ request[1] = Y114
    /\ \E i \in 1..Len(metrics) :
          /\ OnlyZeroDividends(str(Cell(metrics[i], COL_CODE)), Y114)
          /\ ~isna(Cell(metrics[i], COL_PRICE))
          /\ isna(Cell(metrics[i], Y114 \o YIELD))
          /\ \E j \in 1..Len(ledger_file.rows) :
                /\ ledger_file.rows[j].code = str(Cell(metrics[i], COL_CODE))
                /\ ledger_file.rows[j].year = Y114
                /\ ledger_file.rows[j].quarter = Y1

-----------------------------------------------------------------------------
(* Single-quarter EPS of the entries of a quarter sequence *)

\* The cumulative EPS filed for the n-th entry of the sequence of the call.
FiledAt(n) ==
    Get(call.lookup, <<call.code, Prefix(call.seasons_sorted[n], 3),
                       Suffix(call.seasons_sorted[n], 3)>>)

SameFiscalYear(n, m) ==
    Prefix(call.seasons_sorted[n], 3) = Prefix(call.seasons_sorted[m], 3)

\* C26: calc_single_quarter_eps returns one value for every entry after the
\* first: for a Q1 entry its cumulative EPS (absent if not filed); for a
\* Q2..Q4 entry its cumulative EPS minus that of the entry before it when
\* that entry is of the same fiscal year and both are filed, and absent
\* otherwise, also when both are filed in different fiscal years.
C26_SingleQuarterEps ==
    call.fn = "calc_single_quarter_eps" =>
        /\ Len(call.result) = (IF call.seasons_sorted = <<>> THEN 0
                               ELSE Len(call.seasons_sorted) - 1)
        /\ \A n \in 2..Len(call.seasons_sorted) :
              call.result[n - 1] =
                 IF Suffix(call.seasons_sorted[n], 3) = Q1 THEN FiledAt(n)
                 ELSE IF SameFiscalYear(n, n - 1) /\ ~isna(FiledAt(n)) /\ ~isna(FiledAt(n - 1))
                 THEN Some(Val(FiledAt(n)) - Val(FiledAt(n - 1)))
                 ELSE nan

\* A call on 113Q4, 114Q2, 114Q3 with all three filed: the value of 114Q2 is
\* absent (113Q4 is of another year) and that of 114Q3 is the step from 114Q2.
C26_Witness ==
    /\ call.fn = "calc_single_quarter_eps"
    /\ call.seasons_sorted = <<Y113 \o Q4, Y114 \o Q2, Y114 \o Q3>>
    /\ \A n \in 1..3 : ~isna(FiledAt(n))
    /\ call.result = <<nan, Some(150)>>

-----------------------------------------------------------------------------
(* The annual EPS of a record against the ledger *)

\* The Q4 rows of the ledger file for the code a record carries and year y.
YearEndRows(record, y) ==
    {j \in 1..Len(ledger_file.rows) :
        /\ ledger_file.rows[j].code = str(Cell(record, COL_CODE))
        /\ ledger_file.rows[j].year = y
        /\ ledger_file.rows[j].quarter = Q4}

\* C27: for every record and every requested year y, the record's annual
\* EPS of y is the eps of the (y, Q4) ledger row of the record's security,
\* whatever the form of its code.
C27_AnnualEpsFromLedger ==
    last_generate = "ok" =>
        \A i \in 1..Len(metrics), n \in 1..Len(request) :
            \A j \in YearEndRows(metrics[i], request[n]) :
                Cell(metrics[i], request[n] \o EPS_YEAR) = ledger_file.rows[j].eps

-----------------------------------------------------------------------------
(* What the record of a security depends on *)

\* What generate loaded and handed to calculate.
LoadedData == load(ledger_file, price_file, request)

LoadedNames == _get_stock_names_from_price_file(price_file.rows)

\* The entries of a lookup that belong to the security of code c.
Own(d, c) == [k \in {j \in DOMAIN d : str(j[1]) = str(c)} |-> d[k]]

OwnLookups(c) ==
    [eps_lookup |-> Own(lookups.eps_lookup, c), profit_lookup |-> Own(lookups.profit_lookup, c),
     equity_lookup |-> Own(lookups.equity_lookup, c),
     dividend_lookup |-> Own(lookups.dividend_lookup, c)]

\* The entries of a map keyed by code (price map, names) that belong to c.
OwnEntry(d, c) == [k \in {j \in DOMAIN d : str(j) = str(c)} |-> d[k]]

\* The rows of a frame that belong to c.
OwnRows(df, c) ==
    LET IsOwn(r) == str(r.code) = str(c)
    IN  SelectSeq(df, IsOwn)

\* The frames with their rows in the opposite order.
LoadedBackwards ==
    [LoadedData EXCEPT !.eps_df = reversed(@), !.div_df = reversed(@), !.bs_df = reversed(@)]

\* C28: calculate leaves the lookups as build_lookups_from_metrics made them,
\* and the record of a security is the one calculate makes from that
\* security's entries alone: with the entries of every other security
\* removed from the lookups, the dividend frame, the price map and the
\* names, or with the securities processed in the opposite order, the
\* record is the same.
C28_RecordOfOwnEntries ==
    last_generate = "ok" =>
        /\ lookups = LoadedData.lookups
        /\ \A i \in 1..Len(metrics) :
              LET c == Cell(metrics[i], COL_CODE)
              IN  metrics[i] = MetricRow(OwnLookups(c), OwnRows(LoadedData.div_df, c),
                                         OwnEntry(LoadedData.price_map, c),
                                         OwnEntry(LoadedNames, c), request, c)
        /\ {metrics[i] : i \in 1..Len(metrics)}
              = LET backwards == calculate(lookups, LoadedBackwards, request, LoadedNames).rows
                IN  {backwards[i] : i \in 1..Len(backwards)}

\* Records of two securities that both have EPS, dividend and price entries
\* of their own, the first with a yield.
C28_Witness ==
    /\ last_generate = "ok"
    /\ request = <<Y114, Y113>>
    /\ Len(metrics) = 2
    /\ \A i \in 1..2 :
          /\ Own(lookups.eps_lookup, Cell(metrics[i], COL_CODE)) # EmptyDict
          /\ Own(lookups.dividend_lookup, Cell(metrics[i], COL_CODE)) # EmptyDict
          /\ OwnEntry(LoadedData.price_map, Cell(metrics[i], COL_CODE)) # EmptyDict
    /\ \E i \in 1..2 : /\ ~isna(Cell(metrics[i], Y114 \o YIELD))
                       /\ ~isna(Cell(metrics[i], Y114 \o EPS_YEAR))
    /\ \E i \in 1..2 : isna(Cell(metrics[i], Y114 \o CASH_DIV))


-----------------------------------------------------------------------------
(* Requests that reach back to a fiscal year of two digits *)

Y101 == <<"1", "0", "1">>

\* The extracts of the years 99 and 100 of security x next to security 1101.
YearsIncome(x, eps_raw) ==
    (Y99 :> File(<<Inc(x, Y99, Q4, eps_raw, Num(1000)), Inc(x, Y99, Q3, Num(150), Empty)>>))
    @@ (Y100 :> File(<<Inc(x, Y100, Q1, Num(100), Empty), Inc(x, Y100, Q3, Num(300), Empty),
                       Inc(x, Y100, Q4, Num(400), Num(2000)),
                       Inc(CodeA, Y100, Q4, Num(350), Num(900))>>))

YearsBalance(x, e100) ==
    (Y99 :> File(<<Bal(x, Y99, Q4, Num(20000))>>))
    @@ (Y100 :> IF e100 = NoExtract THEN NoFile ELSE File(<<Bal(x, Y100, Q4, e100)>>))

YearsDividendRows(x) == {Div(x, Y99, Num(100)), Div(x, Y99, Num(0))}

YearsDividend(x, rows) ==
    (Y99 :> File(rows)) @@ (Y100 :> File(<<Div(x, Y100, Num(200))>>))

\* generate(years) for the year 100 alone, for 100 and 99, and for 101..99.
YearRequests == {<<Y100>>, <<Y100, Y99>>, <<Y101, Y100, Y99>>}

InitYears ==
    /\ \E x \in {CodeB, CodeC} :
        /\ \E eps_raw \in EpsChoices : income_files = YearsIncome(x, eps_raw)
        /\ \E e100 \in {NoExtract, Num(10000)} : balance_files = YearsBalance(x, e100)
        /\ \E rows \in SeqsUpTo(YearsDividendRows(x), MaxDivRows) :
              dividend_files = YearsDividend(x, rows)
        /\ price_file \in {NoListing, Listing(<<Quote(x, "X", Num(7000))>>)}
    /\ Idle

NextYears ==
    \/ Precompute
    \/ \E years \in YearRequests : Generate(years)

SpecYears == InitYears /\ [][NextYears]_vars

\* C29: season tags and year-prefixed column names round-trip for every
\* requested fiscal year, of two digits as well as of three: calculate raises
\* no ValueError; splitting the tag y+q at the third character gives back
\* (y, q) for every requested year y and quarter q; and the years assemble
\* reads off the names of the annual-EPS columns are the requested years, so
\* the report carries the four per-year columns of every requested year.
C29_YearTagsRoundTrip ==
    /\ last_generate # "ValueError"
    /\ last_generate = "ok" =>
          /\ \A i \in 1..Len(request) : \A q \in {Q1, Q2, Q3, Q4} :
                /\ Prefix(request[i] \o q, 3) = request[i]
                /\ Suffix(request[i] \o q, 3) = q
          /\ ReportYears(metrics) = request
          /\ \A i \in 1..Len(request) : \A t \in {CASH_DIV, YIELD, ROE, EPS_YEAR} :
                /\ InList(request[i] \o t, report.columns)
                /\ \A k \in 1..Len(metrics) : request[i] \o t \in DOMAIN metrics[k].vals
          /\ Len(YearCols(ReportYears(metrics))) = 4 * Len(request)
          /\ \A j \in 1..Len(YearCols(ReportYears(metrics))) :
                \E k \in 1..Len(metrics) : YearCols(ReportYears(metrics))[j] \in DOMAIN metrics[k].vals


-----------------------------------------------------------------------------
(* Runs of precompute over extracts that come and go *)

\* The income-statement extracts found in merged_csv_dir: those of 99 and
\* 100, none at all, or that of 100 only.
ExtractChoices ==
    { (Y99 :> File(<<Inc(CodeB, Y99, Q4, Num(200), Num(1000))>>))
        @@ (Y100 :> File(<<Inc(CodeA, Y100, Q4, Num(500), Num(3000))>>)),
      (Y99 :> NoFile) @@ (Y100 :> NoFile),
      (Y99 :> NoFile)
        @@ (Y100 :> File(<<Inc(CodeA, Y100, Q4, Num(500), Num(3000)),
                           Inc(CodeB, Y100, Q2, Num(250), Empty)>>)) }

\* The merge stage rewrites or removes the income-statement extracts.
DeliverExtracts(income) ==
    /\ income_files # income
    /\ income_files' = income
    /\ UNCHANGED <<balance_files, dividend_files, price_file, ledger_file, manifest,
                   last_precompute, lookups, request, metrics, report, last_generate, call,
                   writer, reader>>

\* A run of precompute that raises: the except clause logs and re-raises.
RaisePrecompute ==
    /\ ~writer.open
    /\ precompute(income_files, balance_files, dividend_files, price_file).status # "ok"
    /\ Precompute

NextRuns ==
    \/ OpenLedger
    \/ \E n \in 1..3 : FlushLedger(n)
    \/ CloseLedger
    \/ RaisePrecompute
    \/ \E income \in ExtractChoices : DeliverExtracts(income)

SpecRuns == InitWrite /\ [][NextRuns]_vars

\* C30: the manifest changes only in the step that ends a run whose ledger
\* rows have all been written, and then describes that ledger; a run that
\* raises (no income-statement extract found) re-raises and leaves the ledger
\* file and the manifest written by earlier runs as they were.
C30_ManifestAfterLedger ==
    [][ /\ manifest' # manifest =>
              /\ writer.open
              /\ ledger_file.rows = writer.result
              /\ ledger_file' = ledger_file
              /\ manifest' = log_data(ledger_file.rows)
              /\ last_precompute' = "ok"
        /\ RaisePrecompute =>
              /\ last_precompute' \in {"ValueError", "KeyError"}
              /\ ledger_file' = ledger_file
              /\ manifest' = manifest ]_vars

\* A run has raised ValueError for want of income-statement extracts while the
\* ledger and the manifest of an earlier run are still in place.
C30_Witness ==
    /\ last_precompute = "ValueError"
    /\ _get_all_years(income_files) = <<>>
    /\ ~writer.open
    /\ ledger_file.exists
    /\ Len(ledger_file.rows) = 3
    /\ manifest = log_data(ledger_file.rows)
    /\ manifest.total_records = 3

=============================================================================
